---- MODULE Spec2Model ----
(***************************************************************************)
(* The MRPE section provider of the Windows agent                          *)
(* (agents/wnx/src/engine/providers/mrpe.cpp): the result cache            *)
(* (MrpeCache), the execution of one entry (ExecMrpeEntry), its resolution *)
(* against the cache (MrpeEntryResult) and the assembly of the section     *)
(* body (MrpeProvider::makeBody), sequential and parallel.                 *)
(*                                                                         *)
(* A std::string is a sequence of one-character strings.  The steady clock *)
(* counts ticks, TicksPerSecond of them to the second, so that the         *)
(* truncation of duration_cast<seconds> is part of the model.              *)
(***************************************************************************)
EXTENDS Integers, Sequences, FiniteSets, TLC

\* ------------------------------------------------------------------ bounds
\* the steady clock stops at MaxNow ticks
MaxNow == 6
\* resolution of the steady clock, in ticks per second
TicksPerSecond == 2

\* ------------------------------------------------------------- characters
LF == "\n"
CR == "\r"
TAB == "\t"
SP == " "
\* the byte 0x01 written '\1' in FixCrCnForMrpe
SOH == "\\1"

\* ---------------------------------------------------------------- strings
RECURSIVE NatToStr(_)
\* std::to_string / fmt "{}" of a non-negative integer: its decimal digits
NatToStr(n) ==
    LET d == <<"0", "1", "2", "3", "4", "5", "6", "7", "8", "9">>
    IN  IF n < 10 THEN <<d[n + 1]>>
        ELSE NatToStr(n \div 10) \o <<d[(n % 10) + 1]>>

\* fmt "{}" of a signed integer
IntToStr(n) == IF n < 0 THEN <<"-">> \o NatToStr(0 - n) ELSE NatToStr(n)

\* ------------------------------------------------------------- MrpeCache
absent == "absent"
old == "old"
ready == "ready"

\* the subtraction the other way round
DiffSecondsReversed(time_pos, tp) == (tp - time_pos) \div TicksPerSecond

\* duration_cast<std::chrono::seconds>(time_pos - line.tp).count()
DiffSeconds(time_pos, tp) == (time_pos - tp) \div TicksPerSecond

\* a row that exists is kept as it is
createLineKeep(cache, key, max_age, add_age) ==
    [k \in DOMAIN cache \cup {key} |->
        IF k \in DOMAIN cache THEN cache[k]
        ELSE [data |-> <<>>, tp |-> 0, max_age |-> max_age, add_age |-> add_age]]

\* MrpeCache::createLine: cache_[key] = Line{add_age, max_age} with empty
\* data and a default-constructed time point
createLine(cache, key, max_age, add_age) ==
    [k \in DOMAIN cache \cup {key} |->
        IF k = key
        THEN [data |-> <<>>, tp |-> 0, max_age |-> max_age, add_age |-> add_age]
        ELSE cache[k]]

\* a line that is stored stays: the first write wins
updateLineDataFirst(cache, key, data) ==
    IF key \notin DOMAIN cache \/ cache[key].data # <<>> THEN cache
    ELSE [cache EXCEPT ![key].data = data]

\* the first store left out
updateLineDataKept(cache, key, data) == cache

\* MrpeCache::updateLine, its first store: cache_[k].data = data
updateLineData(cache, key, data) ==
    IF key \notin DOMAIN cache THEN cache ELSE [cache EXCEPT ![key].data = data]

\* MrpeCache::updateLine, its second store: cache_[k].tp = now()
updateLineTime(cache, time, key) ==
    IF key \notin DOMAIN cache THEN cache ELSE [cache EXCEPT ![key].tp = time]

\* cache_[k] used without the contains test: an unknown key gets a row
updateLineCacheInsert(cache, time, key, data) ==
    [k \in DOMAIN cache \cup {key} |->
        IF k = key
        THEN [data |-> data, tp |-> time,
              max_age |-> IF k \in DOMAIN cache THEN cache[k].max_age ELSE 0,
              add_age |-> IF k \in DOMAIN cache THEN cache[k].add_age ELSE FALSE]
        ELSE cache[k]]

\* MrpeCache::updateLine, the cache it leaves when nothing runs between its
\* two stores
updateLineCache(cache, time, key, data) ==
    IF key \notin DOMAIN cache
    THEN cache
    ELSE updateLineTime(updateLineData(cache, key, data), time, key)

\* MrpeCache::updateLine, the value it returns
updateLineResult(cache, key) == key \in DOMAIN cache

\* >= in place of >
LineStatusGe(diff, max_age) == IF diff >= max_age THEN old ELSE ready

\* the status expression of MrpeCache::getLineData
LineStatus(diff, max_age) == IF diff > max_age THEN old ELSE ready

\* the age annotation of MrpeCache::getLineData, fmt " ({};{})"
AgeSuffix(diff, max_age) ==
    <<SP, "(">> \o IntToStr(diff) \o <<";">> \o IntToStr(max_age) \o <<")">>

\* MrpeCache::getLineData: <<text, state>>
getLineData(cache, time_pos, key) ==
    IF key \notin DOMAIN cache
    THEN <<<<>>, absent>>
    ELSE LET line == cache[key]
             diff == DiffSeconds(time_pos, line.tp)
             result == IF line.add_age
                       THEN line.data \o AgeSuffix(diff, line.max_age)
                       ELSE line.data
         IN  IF line.data = <<>>
             THEN <<<<>>, old>>
             ELSE <<result, LineStatus(diff, line.max_age)>>

\* ----------------------------------------------------------- ExecMrpeEntry
\* tools::AllTrim of the captured output: surrounding whitespace removed
IsSpace(c) == c \in {SP, LF, CR, TAB}

RECURSIVE LeftTrim(_)
LeftTrim(s) ==
    IF s # <<>> /\ IsSpace(Head(s)) THEN LeftTrim(Tail(s)) ELSE s

RECURSIVE RightTrim(_)
RightTrim(s) ==
    IF s # <<>> /\ IsSpace(s[Len(s)])
    THEN RightTrim(SubSeq(s, 1, Len(s) - 1)) ELSE s

AllTrim(s) == LeftTrim(RightTrim(s))

\* the carriage return kept
FixCharKeepCr(ch) == IF ch = LF THEN SOH ELSE ch

\* the lambda of FixCrCnForMrpe, applied to one character
FixChar(ch) == IF ch = LF THEN SOH ELSE IF ch = CR THEN SP ELSE ch

\* FixCrCnForMrpe: rs::transform over the string
FixCrCnForMrpe(str) == [i \in 1..Len(str) |-> FixChar(str[i])]

\* fmt::format("({}) {} ", entry.exe_name_, entry.description_)
ResultHeader(entry) ==
    <<"(">> \o entry.exe_name_ \o <<")", SP>> \o entry.description_ \o <<SP>>

\* "3 Unable to execute - plugin may be missing."
UnableToExecute ==
    <<"3", SP, "U", "n", "a", "b", "l", "e", SP, "t", "o", SP,
      "e", "x", "e", "c", "u", "t", "e", SP, "-", SP,
      "p", "l", "u", "g", "i", "n", SP, "m", "a", "y", SP, "b", "e", SP,
      "m", "i", "s", "s", "i", "n", "g", ".">>

\* the message without the "(exe) description " header
StartFailedLineBare(entry) == UnableToExecute

\* ExecMrpeEntry when startBlind fails
StartFailedLine(entry) == ResultHeader(entry) \o UnableToExecute

\* ExecMrpeEntry when waitForEnd fails: return {}
WaitFailedLine(entry) == <<>>

\* the lambda given to processResults: result += to_string(error_code) + " " + data
ProcessResultsLine(entry, error_code, data_block) ==
    ResultHeader(entry) \o NatToStr(error_code) \o <<SP>>
        \o FixCrCnForMrpe(AllTrim(data_block))

\* TheMiniBox, as far as ExecMrpeEntry drives it
NoBox == [started |-> FALSE, released |-> "none"]
NewBox == [started |-> FALSE, released |-> "no"]

\* minibox.startBlind succeeded: the box holds a child process
BoxStarted(box) == [box EXCEPT !.started = TRUE]

\* minibox.clean()
BoxClean(box) == [box EXCEPT !.released = "clean"]

\* ON_OUT_OF_SCOPE(minibox.clean()): clean() at scope exit once the guard
\* is registered
ScopeExit(box, guard) == IF guard THEN BoxClean(box) ELSE box

\* the guard registered only after the test of success
GuardOnSuccessOnly(success) == success

\* the guard is registered right after waitForEnd, before its result is read
GuardAfterWait(success) == TRUE

\* ~TheMiniBox: releases what the box still holds
MiniBoxDtor(box) ==
    IF box.released = "no" THEN [box EXCEPT !.released = "dtor"] ELSE box

\* ------------------------------------------------------------ tools, cfg
DQ == "\""
SQ == "'"
BSL == "\\"
EQ == "="

UpperCase ==
    <<"A", "B", "C", "D", "E", "F", "G", "H", "I", "J", "K", "L", "M",
      "N", "O", "P", "Q", "R", "S", "T", "U", "V", "W", "X", "Y", "Z">>
LowerCase ==
    <<"a", "b", "c", "d", "e", "f", "g", "h", "i", "j", "k", "l", "m",
      "n", "o", "p", "q", "r", "s", "t", "u", "v", "w", "x", "y", "z">>

\* ::tolower of one character
tolower(ch) ==
    IF \E i \in DOMAIN UpperCase : UpperCase[i] = ch
    THEN LowerCase[CHOOSE i \in DOMAIN UpperCase : UpperCase[i] = ch]
    ELSE ch

\* tools::StringLower, rs::transform(type, type.begin(), tolower)
StringLower(str) == [i \in 1..Len(str) |-> tolower(str[i])]

\* sub occurs in str at position p
StartsAt(str, sub, p) ==
    /\ p + Len(sub) - 1 <= Len(str)
    /\ SubSeq(str, p, p + Len(sub) - 1) = sub

RECURSIVE Find(_, _, _)
\* std::string::find(sub, from): the first position of sub at or after from,
\* counted from 1; 0 stands for npos
Find(str, sub, from) ==
    IF from + Len(sub) - 1 > Len(str) THEN 0
    ELSE IF StartsAt(str, sub, from) THEN from
    ELSE Find(str, sub, from + 1)

RECURSIVE SplitFrom(_, _, _, _, _)
\* the loop of tools::SplitString: a part is pushed at every delimiter, until
\* max_count parts are there; what is left is the last part, pushed unless
\* it is empty
SplitFrom(str, delimiter, max_count, start, result) ==
    LET end == Find(str, delimiter, start)
        last_string == SubSeq(str, start, Len(str))
    IN  IF end = 0 \/ (result # <<>> /\ Len(result) = max_count)
        THEN IF last_string = <<>> THEN result
             ELSE Append(result, last_string)
        ELSE SplitFrom(str, delimiter, max_count, end + Len(delimiter),
                       Append(result, SubSeq(str, start, end - 1)))

\* tools::SplitString(str, delimiter, max_count); max_count 0 is no limit
SplitString(str, delimiter, max_count) ==
    SplitFrom(str, delimiter, max_count, 1, <<>>)

\* tools::RemoveQuotes: one closing and one opening quote character go
RemoveQuotes(in) ==
    LET back == IF Len(in) >= 2 /\ in[Len(in)] \in {SQ, DQ}
                THEN SubSeq(in, 1, Len(in) - 1) ELSE in
    IN  IF Len(in) >= 2 /\ back[1] \in {SQ, DQ} THEN Tail(back) ELSE back

\* cfg::GetUserDir()
GetUserDir == <<"c", ":", BSL, "u">>

\* the marker $CUSTOM_AGENT_PATH$
kCustomAgentPath ==
    <<"$", "C", "U", "S", "T", "O", "M", "_", "A", "G", "E", "N", "T", "_",
      "P", "A", "T", "H", "$">>

\* cfg::ReplacePredefinedMarkers, for the marker of the user directory
ReplacePredefinedMarkers(work_path) ==
    LET pos == Find(work_path, kCustomAgentPath, 1)
    IN  IF pos = 0 THEN work_path
        ELSE SubSeq(work_path, 1, pos - 1) \o GetUserDir
               \o SubSeq(work_path, pos + Len(kCustomAgentPath),
                         Len(work_path))

\* ------------------------------------------------------ std::filesystem
IsSeparator(ch) == ch \in {BSL, "/"}

\* fs::path::is_relative for paths without a root or with a drive root
is_relative(path) ==
    ~(Len(path) >= 3 /\ path[2] = ":" /\ IsSeparator(path[3]))

\* fs::path operator/ with a relative right-hand side
PathAppend(dir, path) ==
    IF dir # <<>> /\ IsSeparator(dir[Len(dir)]) THEN dir \o path
    ELSE dir \o <<BSL>> \o path

\* fs::path::filename: what follows the last separator
filename(path) ==
    LET seps == {p \in 1..Len(path) : IsSeparator(path[p])}
        last == IF seps = {} THEN 0
                ELSE CHOOSE p \in seps : \A q \in seps : q <= p
    IN  SubSeq(path, last + 1, Len(path))

\* the files the provider may look at: path -> [regular, readable, lines],
\* lines being what std::getline yields
IsValidRegularFile(files, path) == path \in DOMAIN files /\ files[path].regular

\* ---------------------------------------------------------- TokenizeString
\* "([^"]+)" or '([^']+)' tried at p: the position of the closing quote, 0
\* when the alternative does not match there
QuotedEnd(val, p, quote) ==
    LET close == Find(val, <<quote>>, p + 1)
    IN  IF val[p] = quote /\ close > p + 1 THEN close ELSE 0

RECURSIVE UnquotedEnd(_, _)
\* [^" \t]+ from p, greedy: the position of its last character
UnquotedEnd(val, p) ==
    IF p + 1 <= Len(val) /\ val[p + 1] \notin {DQ, SP, TAB}
    THEN UnquotedEnd(val, p + 1) ELSE p

\* the regex ("([^"]+)"|'([^']+)'|[^" \t]+) tried at p, alternatives in order:
\* the position of the last character of the match, 0 for no match
MatchEnd(val, p) ==
    IF QuotedEnd(val, p, DQ) # 0 THEN QuotedEnd(val, p, DQ)
    ELSE IF QuotedEnd(val, p, SQ) # 0 THEN QuotedEnd(val, p, SQ)
    ELSE IF val[p] \notin {DQ, SP, TAB} THEN UnquotedEnd(val, p)
    ELSE 0

RECURSIVE TokenizeFrom(_, _)
\* std::sregex_token_iterator: the leftmost match, then on behind it
TokenizeFrom(val, p) ==
    IF p > Len(val) THEN <<>>
    ELSE IF MatchEnd(val, p) = 0 THEN TokenizeFrom(val, p + 1)
    ELSE <<SubSeq(val, p, MatchEnd(val, p))>>
             \o TokenizeFrom(val, MatchEnd(val, p) + 1)

\* TokenizeString(val, 1): sub-match 1 is the whole match, quotes included
TokenizeString(val) == TokenizeFrom(val, 1)

\* ------------------------------------------------------ ParseCacheAgeToken
Digits == <<"0", "1", "2", "3", "4", "5", "6", "7", "8", "9">>
IsDigit(ch) == \E i \in DOMAIN Digits : Digits[i] = ch
DigitValue(ch) == (CHOOSE i \in DOMAIN Digits : Digits[i] = ch) - 1

RECURSIVE LeadingDigits(_)
\* the digits str begins with
LeadingDigits(str) ==
    IF str # <<>> /\ IsDigit(Head(str))
    THEN <<Head(str)>> \o LeadingDigits(Tail(str))
    ELSE <<>>

RECURSIVE StripZeros(_)
StripZeros(digits) ==
    IF digits # <<>> /\ Head(digits) = "0" THEN StripZeros(Tail(digits))
    ELSE digits

RECURSIVE DigitsValue(_, _)
\* the value of digits after acc, or -1 once it is above INT_MAX
DigitsValue(digits, acc) ==
    IF digits = <<>> \/ acc = -1 THEN acc
    ELSE IF acc > (2147483647 - DigitValue(Head(digits))) \div 10 THEN -1
    ELSE DigitsValue(Tail(digits), 10 * acc + DigitValue(Head(digits)))

\* the digits of -INT_MIN
IntMinDigits == <<"2", "1", "4", "7", "4", "8", "3", "6", "4", "8">>

RECURSIVE SkipSpace(_)
\* strtol skips leading isspace characters
SkipSpace(str) ==
    IF str # <<>> /\ Head(str) \in {SP, TAB, LF, CR}
    THEN SkipSpace(Tail(str)) ELSE str

\* std::stoi: [ok, value]; not ok stands for std::invalid_argument (no
\* digits) and std::out_of_range (beyond a 32-bit int)
stoi(str) ==
    LET s == SkipSpace(str)
        signed == s # <<>> /\ Head(s) \in {"+", "-"}
        negative == signed /\ Head(s) = "-"
        digits == LeadingDigits(IF signed THEN Tail(s) ELSE s)
        magnitude == DigitsValue(digits, 0)
    IN  IF digits = <<>> THEN [ok |-> FALSE, value |-> 0]
        ELSE IF negative /\ StripZeros(digits) = IntMinDigits
        THEN [ok |-> TRUE, value |-> -2147483647 - 1]
        ELSE IF magnitude = -1 THEN [ok |-> FALSE, value |-> 0]
        ELSE [ok |-> TRUE,
              value |-> IF negative THEN 0 - magnitude ELSE magnitude]

\* std::optional<MrpeCachingInfo>: empty, or one MrpeCachingInfo
NoCaching == <<>>
Caching(max_age, add_age) == <<[max_age |-> max_age, add_age |-> add_age]>>

\* add_age = tokens[1] == "yes)"
AddAge(word) == word = <<"y", "e", "s", ")">>

\* ParseCacheAgeToken
ParseCacheAgeToken(text) ==
    IF Len(text) < 3 \/ text[1] # "(" \/ text[Len(text)] # ")"
    THEN NoCaching
    ELSE LET tokens == SplitString(text, <<":">>, 0)
         IN  IF Len(tokens) # 2 THEN NoCaching
             ELSE LET cache_age == stoi(Tail(tokens[1]))
                  IN  IF cache_age.ok
                      THEN Caching(cache_age.value, AddAge(tokens[2]))
                      ELSE NoCaching

\* BuildValidPath
BuildValidPath(path) == ReplacePredefinedMarkers(RemoveQuotes(path))

\* ------------------------------------------------------------- MrpeEntry
RECURSIVE JoinArgv(_)
\* argv += tokens[i] + " " for every token, then the last space removed
JoinArgv(tokens) ==
    IF tokens = <<>> THEN <<>>
    ELSE IF Len(tokens) = 1 THEN tokens[1]
    ELSE tokens[1] \o <<SP>> \o JoinArgv(Tail(tokens))

\* position_exe, counted from 1: behind the caching token when there is one
PositionExe(tokens) ==
    IF ParseCacheAgeToken(tokens[2]) # NoCaching THEN 3 ELSE 2

\* tokens[position_exe] is read without a test of tokens.size(): true when
\* loadFromString(value) reads behind the end of tokens
ReadsOutOfRange(value) ==
    LET tokens == TokenizeString(value)
    IN  Len(tokens) >= 2 /\ PositionExe(tokens) > Len(tokens)

\* what a read of tokens[position_exe] behind the end of tokens may do: end
\* the process, or yield whatever string the memory there stands for
OutOfRangeReads ==
    {[crash |-> TRUE, str |-> <<>>],
     [crash |-> FALSE, str |-> <<>>],
     [crash |-> FALSE, str |-> <<"x", "y", "z">>]}

\* MrpeEntry::loadFromString on the entry this; oob is what a read behind
\* the end of tokens yields
loadFromString(this, value, oob) ==
    LET tokens == TokenizeString(value)
        caching == ParseCacheAgeToken(tokens[2])
        position_exe == PositionExe(tokens)
        exe_name == IF position_exe <= Len(tokens) THEN tokens[position_exe]
                    ELSE oob
        argv == JoinArgv(SubSeq(tokens, position_exe + 1, Len(tokens)))
        valid_path == BuildValidPath(exe_name)
        exe_full_path == IF is_relative(valid_path)
                         THEN PathAppend(GetUserDir, valid_path)
                         ELSE valid_path
    IN  IF Len(tokens) < 2
        THEN [this EXCEPT !.full_path_name_ = <<>>]
        ELSE IF Len(exe_name) <= 2
        THEN [this EXCEPT !.full_path_name_ = <<>>, !.caching_ = caching]
        ELSE [this EXCEPT
                 !.full_path_name_ = exe_full_path,
                 !.exe_name_ = filename(exe_full_path),
                 !.command_line_ = IF argv = <<>> THEN exe_full_path
                                   ELSE exe_full_path \o <<SP>> \o argv,
                 !.description_ = RemoveQuotes(tokens[1]),
                 !.caching_ = caching]

\* MrpeEntry(run_as_user, value): the members default-constructed, then
\* loadFromString(value)
MrpeEntry(run_as_user, value, oob) ==
    loadFromString([run_as_user_ |-> run_as_user,
                    description_ |-> <<>>,
                    exe_name_ |-> <<>>,
                    full_path_name_ |-> <<>>,
                    command_line_ |-> <<>>,
                    caching_ |-> NoCaching], value, oob)

\* ------------------------------------------- MrpeProvider: configuration
kInclude == <<"i", "n", "c", "l", "u", "d", "e">>
kCheck == <<"c", "h", "e", "c", "k">>
\* the null character that type[type.size()] yields
NUL == "\\0"

\* the list kept as it is
clearNothing(list) == list

\* std::vector::clear
clear(list) == <<>>

\* MrpeProvider::parseAndLoadEntry on the members checks and includes:
\* [ok, checks, includes], ok being the value returned
parseAndLoadEntry(checks, includes, entry) ==
    LET table == SplitString(entry, <<EQ>>, 0)
        type == StringLower(table[1])
        pos == Find(type, kInclude, 1)
        len == Len(kInclude)
        type_len == IF len + 1 <= Len(type) THEN type[len + 1] ELSE NUL
        value == AllTrim(SubSeq(entry, len + pos, Len(entry)))
        rejected == [ok |-> FALSE, checks |-> checks, includes |-> includes]
    IN  IF Len(table) # 2 THEN rejected
        ELSE IF pos # 0 /\ (type_len = NUL \/ type_len = SP)
        THEN IF value # <<>>
             THEN [ok |-> TRUE, checks |-> checks,
                   includes |-> Append(includes, value)]
             ELSE rejected
        ELSE IF StringLower(AllTrim(type)) = kCheck
        THEN [ok |-> TRUE,
              checks |-> Append(checks,
                                ReplacePredefinedMarkers(AllTrim(table[2]))),
              includes |-> includes]
        ELSE rejected

RECURSIVE ParseStrings(_, _, _)
\* for (auto &str : strings) parseAndLoadEntry(str)
ParseStrings(checks, includes, strings) ==
    IF strings = <<>> THEN [checks |-> checks, includes |-> includes]
    ELSE LET r == parseAndLoadEntry(checks, includes, Head(strings))
         IN  ParseStrings(r.checks, r.includes, Tail(strings))

\* MrpeProvider::parseConfig: checks_ and includes_ are reset, then every
\* string of the configuration is parsed
parseConfig(checks, includes, strings) ==
    ParseStrings(clear(checks), clear(includes), strings)

\* MrpeProvider::addParsedChecks
addParsedChecks(entries, checks, oob) ==
    entries \o [i \in 1..Len(checks) |-> MrpeEntry(<<>>, checks[i], oob)]

\* ParseIncludeEntry: [user, path], both empty for an invalid entry
ParseIncludeEntry(entry) ==
    LET table == SplitString(entry, <<EQ>>, 2)
        path == BuildValidPath(AllTrim(table[2]))
    IN  IF Len(table) # 2 THEN [user |-> <<>>, path |-> <<>>]
        ELSE [user |-> AllTrim(table[1]),
              path |-> IF is_relative(path) THEN PathAppend(GetUserDir, path)
                       ELSE path]

\* one turn of the loop of AddCfgFileToEntries: the values of which the line
\* makes an entry, none or one
CfgLineChecks(raw) ==
    LET line == AllTrim(raw)
        tokens == SplitString(line, <<EQ>>, 2)
    IN  IF line = <<>> \/ line[1] = "#" \/ line[1] = ";" THEN <<>>
        ELSE IF Len(tokens) # 2 THEN <<>>
        ELSE IF StringLower(AllTrim(tokens[1])) = kCheck
        THEN <<AllTrim(tokens[2])>>
        ELSE <<>>

RECURSIVE CfgFileChecks(_)
\* the loop of AddCfgFileToEntries over the lines std::getline yields
CfgFileChecks(lines) ==
    IF lines = <<>> THEN <<>>
    ELSE CfgLineChecks(Head(lines)) \o CfgFileChecks(Tail(lines))

\* std::ifstream ifs(path) is good
CanOpen(files, path) == path \in DOMAIN files /\ files[path].readable

\* AddCfgFileToEntries(user, path, entries): entries afterwards
AddCfgFileToEntries(files, user, path, entries, oob) ==
    IF ~CanOpen(files, path) THEN entries
    ELSE LET values == CfgFileChecks(files[path].lines)
         IN  entries \o [i \in 1..Len(values) |->
                             MrpeEntry(user, values[i], oob)]

RECURSIVE addParsedIncludes(_, _, _, _)
\* MrpeProvider::addParsedIncludes
addParsedIncludes(files, entries, includes, oob) ==
    IF includes = <<>> THEN entries
    ELSE LET inc == ParseIncludeEntry(Head(includes))
             added == IF inc.path = <<>>
                           \/ ~IsValidRegularFile(files, inc.path)
                      THEN entries
                      ELSE AddCfgFileToEntries(files, inc.user, inc.path,
                                               entries, oob)
         IN  addParsedIncludes(files, added, Tail(includes), oob)

\* rs::remove_if and erase under if constexpr (kMrpeRemoveAbsentFiles)
RemoveAbsentFiles(files, remove, entries) ==
    IF remove
    THEN SelectSeq(entries,
                   LAMBDA e : IsValidRegularFile(files, e.full_path_name_))
    ELSE entries

\* MrpeProvider::addParsedConfig: entries_ afterwards
addParsedConfig(files, remove, entries, checks, includes, oob) ==
    RemoveAbsentFiles(files, remove,
        addParsedIncludes(files,
            addParsedChecks(clear(entries), checks, oob), includes, oob))

\* true when one of the entries addParsedConfig constructs reads behind the
\* end of its tokens
LoadReadsOutOfRange(files, checks, includes) ==
    \/ \E i \in DOMAIN checks : ReadsOutOfRange(checks[i])
    \/ \E i \in DOMAIN includes :
          LET inc == ParseIncludeEntry(includes[i])
          IN  /\ inc.path # <<>>
              /\ IsValidRegularFile(files, inc.path)
              /\ CanOpen(files, inc.path)
              /\ \E l \in DOMAIN files[inc.path].lines :
                    \E v \in DOMAIN CfgLineChecks(files[inc.path].lines[l]) :
                        ReadsOutOfRange(CfgLineChecks(files[inc.path].lines[l])[v])

\* ------------------------------------------------------- configurations
\* check specifications, as written behind "check ="
\* A c:\a
SpecA ==
    <<"A", SP, "c", ":", BSL, "a">>
\* B (1:yes) c:\b
SpecB ==
    <<"B", SP, "(", "1", ":", "y", "e", "s", ")", SP, "c", ":", BSL, "b">>
\* B (0:no) c:\c
SpecBNoAge ==
    <<"B", SP, "(", "0", ":", "n", "o", ")", SP, "c", ":", BSL, "c">>
\* B (1:yes) c:\c
SpecBOther ==
    <<"B", SP, "(", "1", ":", "y", "e", "s", ")", SP, "c", ":", BSL, "c">>
\* M (1:yes) n.x
SpecMissing ==
    <<"M", SP, "(", "1", ":", "y", "e", "s", ")", SP, "n", ".", "x">>
\* Z
SpecOneToken ==
    <<"Z">>
\* Y ab
SpecShortExe ==
    <<"Y", SP, "a", "b">>
\* W (1:yes)
SpecEndsAtCaching ==
    <<"W", SP, "(", "1", ":", "y", "e", "s", ")">>

\* directives of the mrpe configuration
\* check = A c:\a
CheckA ==
    <<"c", "h", "e", "c", "k", SP, EQ, SP, "A", SP, "c", ":", BSL, "a">>
\* check = B (1:yes) c:\b
CheckB ==
    <<"c", "h", "e", "c", "k", SP, EQ, SP, "B", SP, "(", "1", ":", "y", "e",
      "s", ")", SP, "c", ":", BSL, "b">>
\* check = B (0:no) c:\c
CheckBNoAge ==
    <<"c", "h", "e", "c", "k", SP, EQ, SP, "B", SP, "(", "0", ":", "n", "o",
      ")", SP, "c", ":", BSL, "c">>
\* check = B (1:yes) c:\c
CheckBOther ==
    <<"c", "h", "e", "c", "k", SP, EQ, SP, "B", SP, "(", "1", ":", "y", "e",
      "s", ")", SP, "c", ":", BSL, "c">>
\* check = M (1:yes) n.x
CheckMissing ==
    <<"c", "h", "e", "c", "k", SP, EQ, SP, "M", SP, "(", "1", ":", "y", "e",
      "s", ")", SP, "n", ".", "x">>
\* check = Z
CheckOneToken ==
    <<"c", "h", "e", "c", "k", SP, EQ, SP, "Z">>
\* check = Y ab
CheckShortExe ==
    <<"c", "h", "e", "c", "k", SP, EQ, SP, "Y", SP, "a", "b">>
\* check = W (1:yes)
CheckEndsAtCaching ==
    <<"c", "h", "e", "c", "k", SP, EQ, SP, "W", SP, "(", "1", ":", "y", "e",
      "s", ")">>
\* include sk = m.cfg
IncludeUser ==
    <<"i", "n", "c", "l", "u", "d", "e", SP, "s", "k", SP, EQ, SP, "m", ".",
      "c", "f", "g">>
\* include = none.cfg
IncludeNoFile ==
    <<"i", "n", "c", "l", "u", "d", "e", SP, EQ, SP, "n", "o", "n", "e", ".",
      "c", "f", "g">>
\* includes = m.cfg
Includes ==
    <<"i", "n", "c", "l", "u", "d", "e", "s", SP, EQ, SP, "m", ".", "c", "f",
      "g">>

\* more directives, for direct calls of parseAndLoadEntry
\* CHECK=A c:\a
CheckUpper ==
    <<"C", "H", "E", "C", "K", EQ, "A", SP, "c", ":", BSL, "a">>
\*   Check  =  A c:\a  
CheckSpaced ==
    <<SP, SP, "C", "h", "e", "c", "k", SP, SP, EQ, SP, SP, "A", SP, "c", ":",
      BSL, "a", SP, SP>>
\* check = A c:\a -o=1
CheckWithEq ==
    <<"c", "h", "e", "c", "k", SP, EQ, SP, "A", SP, "c", ":", BSL, "a", SP,
      "-", "o", EQ, "1">>
\* check = A $CUSTOM_AGENT_PATH$\a.x
CheckMarker ==
    <<"c", "h", "e", "c", "k", SP, EQ, SP, "A", SP, "$", "C", "U", "S", "T",
      "O", "M", "_", "A", "G", "E", "N", "T", "_", "P", "A", "T", "H", "$",
      BSL, "a", ".", "x">>
\* check=
CheckNoValue ==
    <<"c", "h", "e", "c", "k", EQ>>
\* check
CheckNoEq ==
    <<"c", "h", "e", "c", "k">>
\* 
EmptyDirective ==
    <<>>
\* =x
NoKey ==
    <<EQ, "x">>
\* chck = A c:\a
Chck ==
    <<"c", "h", "c", "k", SP, EQ, SP, "A", SP, "c", ":", BSL, "a">>
\* include = m.cfg
IncludePlain ==
    <<"i", "n", "c", "l", "u", "d", "e", SP, EQ, SP, "m", ".", "c", "f", "g">>
\* Include=m.cfg
IncludeNoSpace ==
    <<"I", "n", "c", "l", "u", "d", "e", EQ, "m", ".", "c", "f", "g">>
\* include  =   'm.cfg'
IncludeQuoted ==
    <<"i", "n", "c", "l", "u", "d", "e", SP, SP, EQ, SP, SP, SP, SQ, "m", ".",
      "c", "f", "g", SQ>>
\* INCLUDE = m.cfg
IncludeUpper ==
    <<"I", "N", "C", "L", "U", "D", "E", SP, EQ, SP, "m", ".", "c", "f", "g">>
\*  include = m.cfg
IncludeLeadingSpace ==
    <<SP, "i", "n", "c", "l", "u", "d", "e", SP, EQ, SP, "m", ".", "c", "f",
      "g">>
\* include\t= m.cfg
IncludeTab ==
    <<"i", "n", "c", "l", "u", "d", "e", TAB, EQ, SP, "m", ".", "c", "f",
      "g">>
\* 1234567 include = m.cfg
IncludeBehindWord ==
    <<"1", "2", "3", "4", "5", "6", "7", SP, "i", "n", "c", "l", "u", "d",
      "e", SP, EQ, SP, "m", ".", "c", "f", "g">>
\* xinclude = m.cfg
IncludeInWord ==
    <<"x", "i", "n", "c", "l", "u", "d", "e", SP, EQ, SP, "m", ".", "c", "f",
      "g">>
\* include = a=b.cfg
IncludeWithEq ==
    <<"i", "n", "c", "l", "u", "d", "e", SP, EQ, SP, "a", EQ, "b", ".", "c",
      "f", "g">>
\* includ = m.cfg
Includ ==
    <<"i", "n", "c", "l", "u", "d", SP, EQ, SP, "m", ".", "c", "f", "g">>

\* more check specifications, for direct constructions of a MrpeEntry
\* Codepage 'c:\w\chcp.com' x d f
SpecCodepage ==
    <<"C", "o", "d", "e", "p", "a", "g", "e", SP, SQ, "c", ":", BSL, "w", BSL,
      "c", "h", "c", "p", ".", "c", "o", "m", SQ, SP, "x", SP, "d", SP, "f">>
\* Codepage (123456:yes) 'c:\w\chcp.com' x d f
SpecCodepageCached ==
    <<"C", "o", "d", "e", "p", "a", "g", "e", SP, "(", "1", "2", "3", "4",
      "5", "6", ":", "y", "e", "s", ")", SP, SQ, "c", ":", BSL, "w", BSL, "c",
      "h", "c", "p", ".", "c", "o", "m", SQ, SP, "x", SP, "d", SP, "f">>
\* Type 'c:\a b\c.com' x d f
SpecType ==
    <<"T", "y", "p", "e", SP, SQ, "c", ":", BSL, "a", SP, "b", BSL, "c", ".",
      "c", "o", "m", SQ, SP, "x", SP, "d", SP, "f">>
\* "a b" "c:\p q\r.x" -v
SpecQuotedDesc ==
    <<DQ, "a", SP, "b", DQ, SP, DQ, "c", ":", BSL, "p", SP, "q", BSL, "r",
      ".", "x", DQ, SP, "-", "v">>
\* B (5:maybe) c:\b
SpecOtherWord ==
    <<"B", SP, "(", "5", ":", "m", "a", "y", "b", "e", ")", SP, "c", ":", BSL,
      "b">>
\* B (5:Yes) c:\b
SpecYesUpper ==
    <<"B", SP, "(", "5", ":", "Y", "e", "s", ")", SP, "c", ":", BSL, "b">>
\* B (5:) c:\b
SpecNoWord ==
    <<"B", SP, "(", "5", ":", ")", SP, "c", ":", BSL, "b">>
\* B (x:yes) c:\b
SpecNoInt ==
    <<"B", SP, "(", "x", ":", "y", "e", "s", ")", SP, "c", ":", BSL, "b">>
\* B (:yes) c:\b
SpecEmptyInt ==
    <<"B", SP, "(", ":", "y", "e", "s", ")", SP, "c", ":", BSL, "b">>
\* B (-5:yes) c:\b
SpecNegative ==
    <<"B", SP, "(", "-", "5", ":", "y", "e", "s", ")", SP, "c", ":", BSL,
      "b">>
\* B (+7:no) c:\b
SpecPlus ==
    <<"B", SP, "(", "+", "7", ":", "n", "o", ")", SP, "c", ":", BSL, "b">>
\* B (5x:no) c:\b
SpecIntThenLetter ==
    <<"B", SP, "(", "5", "x", ":", "n", "o", ")", SP, "c", ":", BSL, "b">>
\* B (99999999999:yes) c:\b
SpecTooBig ==
    <<"B", SP, "(", "9", "9", "9", "9", "9", "9", "9", "9", "9", "9", "9",
      ":", "y", "e", "s", ")", SP, "c", ":", BSL, "b">>
\* B (1:yes:no) c:\b
SpecTwoColons ==
    <<"B", SP, "(", "1", ":", "y", "e", "s", ":", "n", "o", ")", SP, "c", ":",
      BSL, "b">>
\* B (1) c:\b
SpecNoColon ==
    <<"B", SP, "(", "1", ")", SP, "c", ":", BSL, "b">>
\* B 1:yes c:\b
SpecNoParen ==
    <<"B", SP, "1", ":", "y", "e", "s", SP, "c", ":", BSL, "b">>
\* Y 'a'
SpecQuotedShortExe ==
    <<"Y", SP, SQ, "a", SQ>>
\* W (1:yes) ab
SpecCachingShortExe ==
    <<"W", SP, "(", "1", ":", "y", "e", "s", ")", SP, "a", "b">>
\* D 'c:\a b
SpecOpenQuote ==
    <<"D", SP, SQ, "c", ":", BSL, "a", SP, "b">>
\* 
SpecEmpty ==
    <<>>

\* lines of include files
\* # a
LineComment ==
    <<"#", SP, "a">>
\*   ;
LineSemicolon ==
    <<SP, SP, ";">>
\* 
LineEmpty ==
    <<>>
\* check = A c:\a
LineCheckA ==
    <<"c", "h", "e", "c", "k", SP, EQ, SP, "A", SP, "c", ":", BSL, "a">>
\* CHECK=B (1:yes) c:\b
LineCheckUpper ==
    <<"C", "H", "E", "C", "K", EQ, "B", SP, "(", "1", ":", "y", "e", "s", ")",
      SP, "c", ":", BSL, "b">>
\* check = BadFile 'sss.bat'
LineBadFile ==
    <<"c", "h", "e", "c", "k", SP, EQ, SP, "B", "a", "d", "F", "i", "l", "e",
      SP, SQ, "s", "s", "s", ".", "b", "a", "t", SQ>>
\* check = Z
LineCheckOneToken ==
    <<"c", "h", "e", "c", "k", SP, EQ, SP, "Z">>
\* chck = A c:\a
LineChck ==
    <<"c", "h", "c", "k", SP, EQ, SP, "A", SP, "c", ":", BSL, "a">>
\* check
LineNoEq ==
    <<"c", "h", "e", "c", "k">>
\* include = m.cfg
LineInclude ==
    <<"i", "n", "c", "l", "u", "d", "e", SP, EQ, SP, "m", ".", "c", "f", "g">>
\* check = A c:\a -o=1
LineCheckWithEq ==
    <<"c", "h", "e", "c", "k", SP, EQ, SP, "A", SP, "c", ":", BSL, "a", SP,
      "-", "o", EQ, "1">>
\* check = W (1:yes)
LineEndsAtCaching ==
    <<"c", "h", "e", "c", "k", SP, EQ, SP, "W", SP, "(", "1", ":", "y", "e",
      "s", ")">>

\* paths
\* c:\a
PathA ==
    <<"c", ":", BSL, "a">>
\* c:\b
PathB ==
    <<"c", ":", BSL, "b">>
\* c:\c
PathC ==
    <<"c", ":", BSL, "c">>
\* c:\u\m.cfg
PathCfg ==
    <<"c", ":", BSL, "u", BSL, "m", ".", "c", "f", "g">>
\* c:\u\l.cfg
PathLocked ==
    <<"c", ":", BSL, "u", BSL, "l", ".", "c", "f", "g">>
\* c:\u\d
PathDir ==
    <<"c", ":", BSL, "u", BSL, "d">>
\* sk
UserSk ==
    <<"s", "k">>

\* a file on disk
File(regular, readable, lines) ==
    [regular |-> regular, readable |-> readable, lines |-> lines]

\* the include file m.cfg of the user directory
CfgLines == <<LineCheckA, LineComment, LineCheckUpper, LineCheckOneToken>>

\* the disk: the executables c:\a, c:\b and c:\c, the include file
\* c:\u\m.cfg, an include file that cannot be opened, and a directory
Files ==
    (PathA :> File(TRUE, TRUE, <<>>)) @@ (PathB :> File(TRUE, TRUE, <<>>))
        @@ (PathC :> File(TRUE, TRUE, <<>>))
        @@ (PathCfg :> File(TRUE, TRUE, CfgLines))
        @@ (PathLocked :> File(TRUE, FALSE, <<>>))
        @@ (PathDir :> File(FALSE, FALSE, <<>>))

\* what cfg::GetVal and cfg::GetArray give loadConfig: the poll timeout and
\* the strings of the mrpe configuration
Config(timeout, strings) ==
    [timeout |-> timeout, strings |-> strings, loaded |-> FALSE]

\* the configurations of the provider that makes bodies
Configs ==
    {Config(10, <<CheckA, CheckB>>),
     Config(0, <<CheckBNoAge, CheckA>>),
     Config(10, <<CheckB, CheckBOther>>),
     Config(10, <<>>)}

\* the directives of the configurations whose loading is examined
LoadDirectives ==
    {CheckA, CheckMissing, CheckOneToken, CheckShortExe, IncludeUser,
     IncludeNoFile, Includes}

\* the poll timeouts of these configurations
LoadTimeouts == {0, 1, 5}

\* no directive or one, with every timeout; two directives with the last
LoadConfigs ==
    {Config(t, <<>>) : t \in LoadTimeouts}
        \cup {Config(t, <<d>>) : t \in LoadTimeouts, d \in LoadDirectives}
        \cup {Config(5, <<d, e>>) : d \in LoadDirectives,
                                    e \in LoadDirectives}

\* the configurations in which a check reads behind the end of its tokens
OutOfRangeConfigs ==
    {cfg \in Configs \cup LoadConfigs :
        LET parsed == parseConfig(<<>>, <<>>, cfg.strings)
        IN  LoadReadsOutOfRange(Files, parsed.checks, parsed.includes)}

\* no read behind the end of the tokens
InRange == [crash |-> FALSE, str |-> <<>>]

\* what the reads behind the end of the tokens may do while cfg is loaded
ReadsOf(cfg) ==
    IF cfg \in OutOfRangeConfigs THEN OutOfRangeReads ELSE {InRange}

\* ------------------------------------- arguments of the direct calls
\* a direct call of the function fn: its arguments, and the members checks_,
\* includes_ and entries_ it finds
Input(fn, str, user, path, files, checks, includes, entries) ==
    [fn |-> fn, str |-> str, user |-> user, path |-> path, files |-> files,
     checks |-> checks, includes |-> includes, entries |-> entries]

AllDirectives ==
    {CheckA, CheckB, CheckBNoAge, CheckBOther, CheckMissing, CheckOneToken,
     CheckShortExe, CheckEndsAtCaching, IncludeUser, IncludeNoFile, Includes,
     CheckUpper, CheckSpaced, CheckWithEq, CheckMarker, CheckNoValue,
     CheckNoEq, EmptyDirective, NoKey, Chck, IncludePlain, IncludeNoSpace,
     IncludeQuoted, IncludeUpper, IncludeLeadingSpace, IncludeTab,
     IncludeBehindWord, IncludeInWord, IncludeWithEq, Includ}

\* checks_ and includes_ before parseAndLoadEntry: empty, or one of each
PendingLists ==
    {[checks |-> <<>>, includes |-> <<>>],
     [checks |-> <<SpecB>>, includes |-> <<UserSk \o <<SP, EQ, SP>> \o PathCfg>>]}

DirectiveInputs ==
    {Input("parseAndLoadEntry", d, <<>>, <<>>, <<>>, l.checks, l.includes,
           <<>>) : d \in AllDirectives, l \in PendingLists}

AllSpecs ==
    {SpecA, SpecB, SpecBNoAge, SpecBOther, SpecMissing, SpecOneToken,
     SpecShortExe, SpecEndsAtCaching, SpecCodepage, SpecCodepageCached,
     SpecType, SpecQuotedDesc, SpecOtherWord, SpecYesUpper, SpecNoWord,
     SpecNoInt, SpecEmptyInt, SpecNegative, SpecPlus, SpecIntThenLetter,
     SpecTooBig, SpecTwoColons, SpecNoColon, SpecNoParen, SpecQuotedShortExe,
     SpecCachingShortExe, SpecOpenQuote, SpecEmpty}

Users == {<<>>, UserSk}

EntryInputs ==
    {Input("MrpeEntry", s, u, <<>>, <<>>, <<>>, <<>>, <<>>) :
         s \in AllSpecs, u \in Users}

AllLines ==
    {LineComment, LineSemicolon, LineEmpty, LineCheckA, LineCheckUpper,
     LineBadFile, LineCheckOneToken, LineChck, LineNoEq, LineInclude,
     LineCheckWithEq, LineEndsAtCaching}

\* contents of an include file: nothing, one line, or some lines
IncludeFiles ==
    {<<>>} \cup {<<l>> : l \in AllLines}
        \cup {<<LineComment, LineSemicolon, LineCheckA, LineEmpty,
                LineCheckUpper, LineBadFile>>,
              <<LineChck, LineCheckA, LineNoEq, LineInclude,
                LineCheckOneToken>>,
              <<LineCheckUpper, LineCheckWithEq, LineCheckA>>,
              <<LineEndsAtCaching, LineCheckA>>}

\* the entries before AddCfgFileToEntries: none, or one
Sinks == {<<>>, <<MrpeEntry(<<>>, SpecB, <<>>)>>}

CfgFileInputs ==
    {Input("AddCfgFileToEntries", <<>>, u, PathCfg,
           PathCfg :> File(TRUE, TRUE, lines), <<>>, <<>>, s) :
         u \in Users, lines \in IncludeFiles, s \in Sinks}
    \cup {Input("AddCfgFileToEntries", <<>>, u, pth, Files, <<>>, <<>>, s) :
             u \in Users, pth \in {PathLocked, PathDir, <<"n">>},
             s \in Sinks}

\* captured output: up to three characters, and the string of the test
Outputs ==
    LET chars == {"a", SP, CR, LF}
    IN  {<<>>} \cup {<<c>> : c \in chars}
            \cup {<<c, d>> : c \in chars, d \in chars}
            \cup {<<c, d, e>> : c \in chars, d \in chars, e \in chars}
            \cup {<<"a", CR, "b", LF, LF>>}

FixInputs ==
    {Input("FixCrCnForMrpe", s, <<>>, <<>>, <<>>, <<>>, <<>>, <<>>) :
         s \in Outputs}

ResultInputs ==
    {Input("processResults", s, <<>>, <<>>, <<>>, <<>>, <<>>,
           <<MrpeEntry(<<>>, SpecB, <<>>)>>) : s \in Outputs}

ParseInputs ==
    DirectiveInputs \cup EntryInputs \cup CfgFileInputs \cup FixInputs
        \cup ResultInputs

\* what a started child process may end with: exit code and raw output
ProcResults ==
    {[error_code |-> 0, data_block |-> <<"o", "k", CR, LF>>],
     [error_code |-> 12, data_block |-> <<SP, "a", CR, "b", LF, "c", LF>>]}

\* ------------------------------------------------------------------ state
VARIABLES
    cache_,      \* MrpeProvider::cache_ (MrpeCache::cache_): key -> Line
    now,         \* std::chrono::steady_clock::now(), in ticks
    api,         \* the last direct call of a MrpeCache method and its result
    prev_get,    \* the getLineData result before it, same row untouched since
    yaml,        \* the configuration the last loadConfig read
    timeout_,    \* the provider's timeout, as loadTimeout sets it
    checks_,     \* MrpeProvider::checks_
    includes_,   \* MrpeProvider::includes_
    entries_,    \* MrpeProvider::entries_
    kMrpeRemoveAbsentFiles,  \* the build's constant of that name
    input,       \* the arguments of a direct call of a parsing function
    call,        \* that call and what it returned
    phase,       \* makeBody: "idle", "running" or "finished"
    parallel,    \* makeBody's local parallel
    idx,         \* the sequential loop's position in entries_
    pc,          \* where the resolution of each entry stands
    cached,      \* MrpeEntryResult's <<cached_result, cached_state>>
    box,         \* ExecMrpeEntry's minibox
    guard,       \* whether ExecMrpeEntry's scope guard is registered
    result,      \* ExecMrpeEntry's result
    ret,         \* the value MrpeEntryResult returned
    out,         \* makeBody's out
    tmp,         \* the value of out a task read while appending
    lock         \* makeBody's mutex: 0 when free, else the task holding it

cacheVars == <<cache_, now, api, prev_get>>
configVars == <<yaml, timeout_, checks_, includes_, entries_,
                kMrpeRemoveAbsentFiles>>
parseVars == <<input, call>>
taskVars == <<pc, cached, box, guard, result, ret, tmp>>
bodyVars == <<phase, parallel, idx, out, lock>>
vars == <<cacheVars, configVars, parseVars, taskVars, bodyVars>>

None == [op |-> "none"]

\* no configuration read yet, no direct call made
NoYaml == [timeout |-> 0, strings |-> <<>>, loaded |-> FALSE]
NoInput == [fn |-> "none"]
NoCall == [op |-> "none"]

\* makeBody has not run
BodyInit ==
    /\ phase = "idle"
    /\ parallel = FALSE
    /\ idx = 0
    /\ pc = <<>>
    /\ cached = <<>>
    /\ box = <<>>
    /\ guard = <<>>
    /\ result = <<>>
    /\ ret = <<>>
    /\ out = <<>>
    /\ tmp = <<>>
    /\ lock = 0

\* a provider as constructed
ProviderInit ==
    /\ yaml = NoYaml
    /\ timeout_ = 0
    /\ checks_ = <<>>
    /\ includes_ = <<>>
    /\ entries_ = <<>>
    /\ input = NoInput
    /\ call = NoCall
    /\ BodyInit

CacheInit ==
    /\ cache_ = <<>>
    /\ now = 0
    /\ api = None
    /\ prev_get = None

\* The provider that makes bodies is the build that keeps the entries of
\* absent files: every executable of Configs is a regular file, so that the
\* other build loads the same entries.
Init ==
    /\ CacheInit
    /\ ProviderInit
    /\ kMrpeRemoveAbsentFiles = FALSE

\* time passes on the steady clock
Tick ==
    /\ now < MaxNow
    /\ now' = now + 1

\* ------------------------------------------------- direct calls of MrpeCache
\* keys, data and caching policies of the direct calls
ApiKeys == {<<"K">>, <<"L">>}
ApiData == {<<>>, <<"X">>, <<"Y">>}
ApiPolicies == {[max_age |-> 0, add_age |-> FALSE],
                [max_age |-> 1, add_age |-> TRUE],
                [max_age |-> -1, add_age |-> TRUE]}

providerVars == <<configVars, parseVars, taskVars, bodyVars>>

\* a direct call cache.createLine(key, max_age, add_age)
ApiCreateLine(key, p) ==
    /\ cache_' = createLine(cache_, key, p.max_age, p.add_age)
    /\ api' = [op |-> "createLine", key |-> key]
    /\ prev_get' = None
    /\ UNCHANGED <<now, providerVars>>

\* a direct call cache.updateLine(key, data)
ApiUpdateLine(key, data) ==
    /\ cache_' = updateLineCache(cache_, now, key, data)
    /\ api' = [op |-> "updateLine", key |-> key, data |-> data,
               ok |-> updateLineResult(cache_, key)]
    /\ prev_get' = None
    /\ UNCHANGED <<now, providerVars>>

\* a direct call cache.getLineData(key)
ApiGetLineData(key) ==
    LET r == getLineData(cache_, now, key)
    IN  /\ api' = [op |-> "getLineData", key |-> key,
                   text |-> r[1], state |-> r[2]]
        /\ prev_get' = IF api.op = "getLineData" /\ api.key = key
                       THEN api ELSE None
        /\ UNCHANGED <<cache_, now, providerVars>>

CacheTick == Tick /\ UNCHANGED <<cache_, api, prev_get, providerVars>>

CacheNext ==
    \/ CacheTick
    \/ \E key \in ApiKeys, p \in ApiPolicies : ApiCreateLine(key, p)
    \/ \E key \in ApiKeys, data \in ApiData : ApiUpdateLine(key, data)
    \/ \E key \in ApiKeys : ApiGetLineData(key)

\* the cache alone, driven by direct calls of its three methods
SpecCache == Init /\ [][CacheNext]_vars

\* ---------------------------------------------------------- MrpeProvider
\* MrpeProvider::loadTimeout: setTimeout(std::min(1U, mrpe_timeout))
loadTimeout(mrpe_timeout) == IF mrpe_timeout < 1 THEN mrpe_timeout ELSE 1

\* loadTimeout, parseConfig and addParsedConfig on the members of the
\* provider, with cfg the configuration at the time of the call and Files
\* the disk.  A read behind the end of the tokens of a check either ends the
\* process or goes on with the string oob.str.
LoadMembers(cfg, oob) ==
    /\ phase = "idle"
    /\ \E parsed \in {parseConfig(checks_, includes_, cfg.strings)} :
          IF oob.crash
              /\ LoadReadsOutOfRange(Files, parsed.checks, parsed.includes)
          THEN /\ phase' = "crashed"
               /\ UNCHANGED <<yaml, timeout_, checks_, includes_, entries_>>
          ELSE /\ phase' = phase
               /\ yaml' = [cfg EXCEPT !.loaded = TRUE]
               /\ timeout_' = loadTimeout(cfg.timeout)
               /\ checks_' = parsed.checks
               /\ includes_' = parsed.includes
               /\ entries_' = addParsedConfig(Files,
                                              kMrpeRemoveAbsentFiles,
                                              entries_, parsed.checks,
                                              parsed.includes, oob.str)
    /\ UNCHANGED <<taskVars, parseVars, parallel, idx, out, lock,
                   kMrpeRemoveAbsentFiles>>

\* a load that starts with an empty cache
loadConfigEmptyCache(cfg, oob) ==
    /\ LoadMembers(cfg, oob)
    /\ cache_' = <<>>
    /\ UNCHANGED <<now, api, prev_get>>

\* MrpeProvider::loadConfig: loadTimeout, parseConfig, addParsedConfig.  The
\* cache is not touched.
loadConfig(cfg, oob) ==
    /\ LoadMembers(cfg, oob)
    /\ UNCHANGED cacheVars

Tasks == DOMAIN entries_

\* makeBody begins: out is empty, and in parallel mode std::for_each starts
\* one task per entry
makeBodyBegin(par) ==
    /\ phase = "idle"
    /\ phase' = "running"
    /\ parallel' = par
    /\ idx' = 1
    /\ out' = <<>>
    /\ lock' = 0
    /\ pc' = [i \in Tasks |-> "resolve"]
    /\ cached' = [i \in Tasks |-> <<<<>>, absent>>]
    /\ box' = [i \in Tasks |-> NoBox]
    /\ guard' = [i \in Tasks |-> FALSE]
    /\ result' = [i \in Tasks |-> <<>>]
    /\ ret' = [i \in Tasks |-> <<>>]
    /\ tmp' = [i \in Tasks |-> <<>>]
    /\ UNCHANGED <<cacheVars, configVars, parseVars>>

\* whether task i may take a step: every task in parallel mode, the entry
\* the loop stands at in sequential mode
Runs(i) ==
    /\ phase = "running"
    /\ i \in Tasks
    /\ parallel \/ i = idx

\* the caching_ test left out
HasCachingAlways(entry) == TRUE

\* where MrpeEntryResult goes first: straight to ExecMrpeEntry without
\* caching_, to the cache lookup with it
HasCaching(entry) == entry.caching_ # NoCaching

\* case ready falling through to the execution
AfterLookupAlwaysExec(cached_state) ==
    IF cached_state = absent THEN "create" ELSE "exec"

\* where MrpeEntryResult goes after the lookup, by cached_state
AfterLookup(cached_state) ==
    CASE cached_state = ready -> "append"
      [] cached_state = absent -> "create"
      [] OTHER -> "exec"

\* the line put in front of out
AppendLinePrepend(o, line) == line \o <<LF>> \o o

\* out += ret + "\n"
AppendLine(o, line) == o \o line \o <<LF>>

\* MrpeEntryResult, entered: the caching_ test and the first getLineData
Resolve(i) ==
    /\ Runs(i)
    /\ pc[i] = "resolve"
    /\ IF ~HasCaching(entries_[i])
       THEN /\ pc' = [pc EXCEPT ![i] = "exec"]
            /\ UNCHANGED <<cached, ret>>
       ELSE LET r == getLineData(cache_, now, entries_[i].description_)
            IN  /\ cached' = [cached EXCEPT ![i] = r]
                /\ pc' = [pc EXCEPT ![i] = AfterLookup(r[2])]
                /\ ret' = [ret EXCEPT ![i] = IF r[2] = ready THEN r[1] ELSE @]
    /\ UNCHANGED <<cacheVars, configVars, parseVars, bodyVars, box, guard, result, tmp>>

\* case absent: cache.createLine(description_, max_age, add_age)
CreateLine(i) ==
    /\ Runs(i)
    /\ pc[i] = "create"
    /\ cache_' = createLine(cache_, entries_[i].description_,
                            entries_[i].caching_[1].max_age,
                            entries_[i].caching_[1].add_age)
    /\ pc' = [pc EXCEPT ![i] = "exec"]
    /\ UNCHANGED <<now, api, prev_get, configVars, parseVars, bodyVars,
                   cached, box, guard, result, ret, tmp>>

\* ExecMrpeEntry: TheMiniBox minibox; minibox.startBlind(...)
StartBlind(i) ==
    /\ Runs(i)
    /\ pc[i] = "exec"
    /\ \E started \in BOOLEAN :
         IF started
         THEN /\ box' = [box EXCEPT ![i] = BoxStarted(NewBox)]
              /\ pc' = [pc EXCEPT ![i] = "wait"]
              /\ UNCHANGED result
         ELSE /\ box' = [box EXCEPT ![i] = NewBox]
              /\ result' = [result EXCEPT ![i] = StartFailedLine(entries_[i])]
              /\ pc' = [pc EXCEPT ![i] = "return"]
    /\ UNCHANGED <<cacheVars, configVars, parseVars, bodyVars, cached, guard, ret, tmp>>

\* ExecMrpeEntry: minibox.waitForEnd(timeout), the scope guard, and on
\* success minibox.processResults
WaitForEnd(i) ==
    /\ Runs(i)
    /\ pc[i] = "wait"
    /\ \/ /\ guard' = [guard EXCEPT ![i] = GuardAfterWait(FALSE)]
          /\ result' = [result EXCEPT ![i] = WaitFailedLine(entries_[i])]
       \/ \E r \in ProcResults :
            /\ guard' = [guard EXCEPT ![i] = GuardAfterWait(TRUE)]
            /\ result' = [result EXCEPT ![i] =
                 ProcessResultsLine(entries_[i], r.error_code, r.data_block)]
    /\ pc' = [pc EXCEPT ![i] = "return"]
    /\ UNCHANGED <<cacheVars, configVars, parseVars, bodyVars, cached, box, ret, tmp>>

\* ExecMrpeEntry returns: the scope guard and the box's destructor run, and
\* MrpeEntryResult either returns the result or goes on to cache it
ExecReturn(i) ==
    /\ Runs(i)
    /\ pc[i] = "return"
    /\ box' = [box EXCEPT ![i] = MiniBoxDtor(ScopeExit(@, guard[i]))]
    /\ IF HasCaching(entries_[i])
       THEN /\ pc' = [pc EXCEPT ![i] = "update"]
            /\ UNCHANGED ret
       ELSE /\ pc' = [pc EXCEPT ![i] = "append"]
            /\ ret' = [ret EXCEPT ![i] = result[i]]
    /\ UNCHANGED <<cacheVars, configVars, parseVars, bodyVars, cached, guard, result, tmp>>

\* cache.updateLine(entry.description_, result): the contains test and the
\* store of the data.  No lock covers the cache, so other tasks may run
\* before the store of the time point.
UpdateLine(i) ==
    /\ Runs(i)
    /\ pc[i] = "update"
    /\ cache_' = updateLineData(cache_, entries_[i].description_, result[i])
    /\ pc' = [pc EXCEPT ![i] =
                 IF updateLineResult(cache_, entries_[i].description_)
                 THEN "stamp" ELSE "reread"]
    /\ UNCHANGED <<now, api, prev_get, configVars, parseVars, bodyVars,
                   cached, box, guard, result, ret, tmp>>

\* cache.updateLine, continued: cache_[k].tp = steady_clock::now()
StampLine(i) ==
    /\ Runs(i)
    /\ pc[i] = "stamp"
    /\ cache_' = updateLineTime(cache_, now, entries_[i].description_)
    /\ pc' = [pc EXCEPT ![i] = "reread"]
    /\ UNCHANGED <<now, api, prev_get, configVars, parseVars, bodyVars,
                   cached, box, guard, result, ret, tmp>>

\* return std::get<0>(cache.getLineData(entry.description_))
Reread(i) ==
    /\ Runs(i)
    /\ pc[i] = "reread"
    /\ ret' = [ret EXCEPT ![i] =
                 getLineData(cache_, now, entries_[i].description_)[1]]
    /\ pc' = [pc EXCEPT ![i] = "append"]
    /\ UNCHANGED <<cacheVars, configVars, parseVars, bodyVars,
                   cached, box, guard, result, tmp>>

\* the sequential loop: out += MrpeEntryResult(...) + "\n", next entry
SeqAppend(i) ==
    /\ Runs(i)
    /\ ~parallel
    /\ pc[i] = "append"
    /\ out' = AppendLine(out, ret[i])
    /\ pc' = [pc EXCEPT ![i] = "done"]
    /\ idx' = idx + 1
    /\ UNCHANGED <<cacheVars, configVars, parseVars, phase, parallel, lock,
                   cached, box, guard, result, ret, tmp>>

\* no mutual exclusion
LockFreeAlways(l) == TRUE

\* whether std::lock_guard lk(lock) can be taken
LockFree(l) == l = 0

\* the parallel lambda: std::lock_guard lk(lock)
ParLock(i) ==
    /\ Runs(i)
    /\ parallel
    /\ pc[i] = "append"
    /\ LockFree(lock)
    /\ lock' = i
    /\ pc' = [pc EXCEPT ![i] = "read"]
    /\ UNCHANGED <<cacheVars, configVars, parseVars, phase, parallel, idx, out,
                   cached, box, guard, result, ret, tmp>>

\* the parallel lambda: out += ret + "\n", the read of out
ParRead(i) ==
    /\ Runs(i)
    /\ pc[i] = "read"
    /\ tmp' = [tmp EXCEPT ![i] = out]
    /\ pc' = [pc EXCEPT ![i] = "write"]
    /\ UNCHANGED <<cacheVars, configVars, parseVars, bodyVars,
                   cached, box, guard, result, ret>>

\* the parallel lambda: out += ret + "\n", the write of out, and the end
\* of the lambda, where the lock is released and its locals are gone
ParWrite(i) ==
    /\ Runs(i)
    /\ pc[i] = "write"
    /\ out' = AppendLine(tmp[i], ret[i])
    /\ tmp' = [tmp EXCEPT ![i] = <<>>]
    /\ lock' = 0
    /\ pc' = [pc EXCEPT ![i] = "done"]
    /\ UNCHANGED <<cacheVars, configVars, parseVars, phase, parallel, idx,
                   cached, box, guard, result, ret>>

\* the loop, or std::for_each, is over: makeBody is at return out
makeBodyEnd ==
    /\ phase = "running"
    /\ \A i \in Tasks : pc[i] = "done"
    /\ phase' = "finished"
    /\ UNCHANGED <<cacheVars, configVars, parseVars, taskVars, parallel, idx, out, lock>>

\* makeBody has returned out to its caller
makeBodyReturn ==
    /\ phase = "finished"
    /\ phase' = "idle"
    /\ idx' = 0
    /\ out' = <<>>
    /\ pc' = <<>>
    /\ cached' = <<>>
    /\ box' = <<>>
    /\ guard' = <<>>
    /\ result' = <<>>
    /\ ret' = <<>>
    /\ tmp' = <<>>
    /\ UNCHANGED <<cacheVars, configVars, parseVars, parallel, lock>>

ProviderTick ==
    Tick /\ UNCHANGED <<cache_, api, prev_get, configVars, parseVars, taskVars, bodyVars>>

Next ==
    \/ ProviderTick
    \/ \E cfg \in Configs : \E oob \in ReadsOf(cfg) : loadConfig(cfg, oob)
    \/ \E par \in BOOLEAN : makeBodyBegin(par)
    \/ \E i \in Tasks : Resolve(i)
    \/ \E i \in Tasks : CreateLine(i)
    \/ \E i \in Tasks : StartBlind(i)
    \/ \E i \in Tasks : WaitForEnd(i)
    \/ \E i \in Tasks : ExecReturn(i)
    \/ \E i \in Tasks : UpdateLine(i)
    \/ \E i \in Tasks : StampLine(i)
    \/ \E i \in Tasks : Reread(i)
    \/ \E i \in Tasks : SeqAppend(i)
    \/ \E i \in Tasks : ParLock(i)
    \/ \E i \in Tasks : ParRead(i)
    \/ \E i \in Tasks : ParWrite(i)
    \/ makeBodyEnd
    \/ makeBodyReturn

\* the provider: configuration loads and section bodies, sequential and
\* parallel, with time passing
Spec == Init /\ [][Next]_vars

\* ------------------------------------------------- configuration loads
\* either build of the provider
LoadInit ==
    /\ CacheInit
    /\ ProviderInit
    /\ kMrpeRemoveAbsentFiles \in BOOLEAN

LoadNext ==
    \E cfg \in LoadConfigs : \E oob \in ReadsOf(cfg) : loadConfig(cfg, oob)

\* the provider loading one configuration after another
SpecLoad == LoadInit /\ [][LoadNext]_vars

\* ------------------------------------ direct calls of the parsing functions
\* the arguments of one call, and the members as the call finds them
ParseInit ==
    /\ CacheInit
    /\ BodyInit
    /\ yaml = NoYaml
    /\ timeout_ = 0
    /\ kMrpeRemoveAbsentFiles = FALSE
    /\ input \in ParseInputs
    /\ checks_ = input.checks
    /\ includes_ = input.includes
    /\ entries_ = input.entries
    /\ call = NoCall

\* the process ended inside the call
Crashed == [op |-> "crashed"]

\* mrpe.parseAndLoadEntry(input.str)
CallParseAndLoadEntry ==
    LET r == parseAndLoadEntry(checks_, includes_, input.str)
    IN  /\ input.fn = "parseAndLoadEntry"
        /\ call.op = "none"
        /\ checks_' = r.checks
        /\ includes_' = r.includes
        /\ call' = [op |-> "parseAndLoadEntry", ok |-> r.ok]
        /\ UNCHANGED <<cacheVars, taskVars, bodyVars, input, yaml, timeout_,
                       entries_, kMrpeRemoveAbsentFiles>>

\* MrpeEntry me(input.user, input.str)
CallMrpeEntry(oob) ==
    /\ input.fn = "MrpeEntry"
    /\ call.op = "none"
    /\ call' = IF oob.crash /\ ReadsOutOfRange(input.str) THEN Crashed
               ELSE [op |-> "MrpeEntry",
                     me |-> MrpeEntry(input.user, input.str, oob.str)]
    /\ UNCHANGED <<cacheVars, taskVars, bodyVars, input, configVars>>

\* AddCfgFileToEntries(input.user, input.path, entries_)
CallAddCfgFileToEntries(oob) ==
    LET crashes ==
            /\ oob.crash
            /\ CanOpen(input.files, input.path)
            /\ \E i \in DOMAIN CfgFileChecks(input.files[input.path].lines) :
                  ReadsOutOfRange(
                      CfgFileChecks(input.files[input.path].lines)[i])
    IN  /\ input.fn = "AddCfgFileToEntries"
        /\ call.op = "none"
        /\ call' = IF crashes THEN Crashed
                   ELSE [op |-> "AddCfgFileToEntries"]
        /\ entries_' = IF crashes THEN entries_
                       ELSE AddCfgFileToEntries(input.files, input.user,
                                                input.path, entries_, oob.str)
        /\ UNCHANGED <<cacheVars, taskVars, bodyVars, input, yaml, timeout_,
                       checks_, includes_, kMrpeRemoveAbsentFiles>>

\* FixCrCnForMrpe(s) on s = input.str
CallFixCrCnForMrpe ==
    /\ input.fn = "FixCrCnForMrpe"
    /\ call.op = "none"
    /\ call' = [op |-> "FixCrCnForMrpe", s |-> FixCrCnForMrpe(input.str)]
    /\ UNCHANGED <<cacheVars, taskVars, bodyVars, input, configVars>>

\* the exit codes of the direct calls
ExitCodes == {0, 3}

\* ExecMrpeEntry when the process of entries_[1] ends with error_code and
\* the output input.str
CallProcessResults(error_code) ==
    /\ input.fn = "processResults"
    /\ call.op = "none"
    /\ call' = [op |-> "processResults", error_code |-> error_code,
                result |-> ProcessResultsLine(entries_[1], error_code,
                                              input.str)]
    /\ UNCHANGED <<cacheVars, taskVars, bodyVars, input, configVars>>

ParseNext ==
    \/ CallParseAndLoadEntry
    \/ \E oob \in OutOfRangeReads : CallMrpeEntry(oob)
    \/ \E oob \in OutOfRangeReads : CallAddCfgFileToEntries(oob)
    \/ CallFixCrCnForMrpe
    \/ \E error_code \in ExitCodes : CallProcessResults(error_code)

\* one direct call of a parsing or formatting function
SpecParse == ParseInit /\ [][ParseNext]_vars

\* ================================================================ claims
\* the whole seconds in t ticks
WholeSeconds(t) ==
    CHOOSE a \in 0..t : a * TicksPerSecond <= t /\ t < (a + 1) * TicksPerSecond

\* the age of the row of key k, in whole seconds
RowAge(k) == WholeSeconds(now - cache_[k].tp)

\* " (<age>;<max_age>)" as the report format of the section gives it
ExpectedSuffix(age, max_age) ==
    <<SP, "(">> \o IntToStr(age) \o <<";">> \o IntToStr(max_age) \o <<")">>

\* the text of a row with a non-empty line at the given age
ExpectedText(line, age) ==
    IF line.add_age
    THEN line.data \o ExpectedSuffix(age, line.max_age)
    ELSE line.data

RECURSIVE Flatten(_)
\* the concatenation of a sequence of strings
Flatten(ss) == IF ss = <<>> THEN <<>> ELSE Head(ss) \o Flatten(Tail(ss))

\* the number of newlines in a string
NewLines(str) == Cardinality({n \in 1..Len(str) : str[n] = LF})

\* the steps past the return of ExecMrpeEntry
AfterExec == {"update", "stamp", "reread", "append", "read", "write", "done"}

\* the steps past the return of MrpeEntryResult
AfterResolve == {"append", "read", "write", "done"}

AllKeys == ApiKeys \cup {<<"A">>, <<"B">>}

\* C1: getLineData says absent exactly for a key without a row, old for a
\* row with empty text or an age in whole seconds above max_age, ready
\* exactly for a row with text and age <= max_age; after createLine the key
\* is old with empty text, and right after updateLine(k, X) with a
\* non-negative max_age it is ready with text X.
C1_LineState ==
    /\ \A k \in AllKeys :
         LET r == getLineData(cache_, now, k)
         IN  /\ (r[2] = absent) <=> (k \notin DOMAIN cache_)
             /\ k \in DOMAIN cache_ =>
                  /\ cache_[k].data = <<>> => r = <<<<>>, old>>
                  /\ (cache_[k].data # <<>> /\ RowAge(k) > cache_[k].max_age)
                        => r[2] = old
                  /\ (cache_[k].data # <<>> /\ RowAge(k) <= cache_[k].max_age)
                        => r[2] = ready
             /\ (r[2] = ready) =>
                  /\ k \in DOMAIN cache_
                  /\ cache_[k].data # <<>>
                  /\ RowAge(k) <= cache_[k].max_age
    /\ api.op = "createLine" =>
         getLineData(cache_, now, api.key) = <<<<>>, old>>
    /\ (/\ api.op = "updateLine"
        /\ api.ok
        /\ api.data # <<>>
        /\ cache_[api.key].tp = now
        /\ cache_[api.key].max_age >= 0)
         => getLineData(cache_, now, api.key)
              = <<ExpectedText(cache_[api.key], 0), ready>>

\* a call of getLineData answered ready for a row whose age is exactly its
\* max_age of at least one second
C1_Witness ==
    /\ api.op = "getLineData"
    /\ api.state = ready
    /\ api.key \in DOMAIN cache_
    /\ cache_[api.key].max_age >= 1
    /\ RowAge(api.key) = cache_[api.key].max_age
    /\ api.text = ExpectedText(cache_[api.key], RowAge(api.key))

\* a step of task i of a running makeBody
StepOf(i) == Runs(i) /\ pc'[i] # pc[i]

\* the row of entry i holds a line and is within its max_age
RowReady(i) ==
    LET k == entries_[i].description_
    IN  /\ k \in DOMAIN cache_
        /\ cache_[k].data # <<>>
        /\ RowAge(k) <= cache_[k].max_age

\* C2: when the row of an entry with a caching policy is ready,
\* MrpeEntryResult returns the cached text and neither starts a process nor
\* changes the cache; a task served from the cache never has a process.
C2_ReadyServedFromCache ==
    /\ [][\A i \in Tasks :
            (StepOf(i) /\ pc[i] = "resolve" /\ HasCaching(entries_[i])
                /\ RowReady(i))
            => /\ cache_' = cache_
               /\ pc'[i] = "append"
               /\ box'[i] = NoBox
               /\ ret'[i] = ExpectedText(cache_[entries_[i].description_],
                                         RowAge(entries_[i].description_))]_vars
    /\ [](\A i \in DOMAIN pc :
            cached[i][2] = ready => box[i] = NoBox /\ pc[i] \in AfterResolve)

\* a finished sequential body whose cached entry was served from a row
\* written by an earlier body
C2_Witness ==
    /\ phase = "finished"
    /\ ~parallel
    /\ \E i \in DOMAIN pc :
         /\ HasCaching(entries_[i])
         /\ cached[i][2] = ready
         /\ ret[i] # <<>>
    /\ \A j \in DOMAIN pc : HasCaching(entries_[j]) => box[j] = NoBox

\* C3: an entry without a caching policy goes straight to ExecMrpeEntry and
\* returns its result, and none of its steps changes the cache or looks a
\* row up.
C3_UncachedIsFresh ==
    /\ [][\A i \in Tasks :
            (StepOf(i) /\ entries_[i].caching_ = NoCaching)
            => /\ cache_' = cache_
               /\ cached'[i] = cached[i]
               /\ pc[i] = "resolve" => pc'[i] = "exec"
               /\ pc[i] = "return" => pc'[i] = "append" /\ ret'[i] = result[i]]_vars
    /\ [](\A i \in DOMAIN pc :
            (entries_[i].caching_ = NoCaching /\ pc[i] \in AfterResolve)
            => box[i] # NoBox /\ ret[i] = result[i])

\* the second body of an uncached entry executed it again, next to a cached
\* entry served from the cache
C3_Witness ==
    /\ phase = "finished"
    /\ \E i, j \in DOMAIN pc :
         /\ entries_[i].caching_ = NoCaching
         /\ box[i].started
         /\ ret[i] # <<>>
         /\ cached[j][2] = ready

\* two successive getLineData calls on the same untouched row, both ready,
\* of a row with add_age
C4_TwoReads ==
    /\ api.op = "getLineData"
    /\ prev_get.op = "getLineData"
    /\ api.state = ready
    /\ prev_get.state = ready
    /\ cache_[api.key].add_age

\* C4 as stated: the two texts are the stored text with an age suffix, and
\* the age of the second is strictly greater than that of the first.
C4_AgeStrictlyIncreasing ==
    C4_TwoReads =>
        \E a1, a2 \in 0..MaxNow :
            /\ a1 < a2
            /\ prev_get.text = cache_[api.key].data
                 \o ExpectedSuffix(a1, cache_[api.key].max_age)
            /\ api.text = cache_[api.key].data
                 \o ExpectedSuffix(a2, cache_[api.key].max_age)

\* C4 amended: the two texts are the stored text with an age suffix in
\* whole seconds, and the age of the second is not smaller than that of the
\* first.
C4_AgeNonDecreasing ==
    C4_TwoReads =>
        \E a1, a2 \in 0..MaxNow :
            /\ a1 <= a2
            /\ prev_get.text = cache_[api.key].data
                 \o ExpectedSuffix(a1, cache_[api.key].max_age)
            /\ api.text = cache_[api.key].data
                 \o ExpectedSuffix(a2, cache_[api.key].max_age)

\* two reads inside max_age, the second a second later than the first
C4_Witness ==
    /\ C4_TwoReads
    /\ prev_get.text = cache_[api.key].data \o ExpectedSuffix(0, 1)
    /\ api.text = cache_[api.key].data \o ExpectedSuffix(1, 1)

\* C5: updateLine on a key without a row returns false and leaves the cache
\* as it was; on a key with a row it returns true, stores the data and the
\* time of the call, and leaves max_age, add_age and the other rows alone.
C5_UpdateLine ==
    [][\A key \in ApiKeys, data \in ApiData :
         ApiUpdateLine(key, data) =>
            IF key \notin DOMAIN cache_
            THEN api'.ok = FALSE /\ cache_' = cache_
            ELSE /\ api'.ok = TRUE
                 /\ DOMAIN cache_' = DOMAIN cache_
                 /\ cache_'[key].data = data
                 /\ cache_'[key].tp = now
                 /\ cache_'[key].max_age = cache_[key].max_age
                 /\ cache_'[key].add_age = cache_[key].add_age
                 /\ \A k \in DOMAIN cache_ \ {key} : cache_'[k] = cache_[k]]_vars

\* updateLine has failed on a key never created while another row exists
C5_Witness ==
    /\ api.op = "updateLine"
    /\ api.ok = FALSE
    /\ api.key \notin DOMAIN cache_
    /\ cache_ # <<>>

\* ExecMrpeEntry of task i started its process and waitForEnd failed
TimedOut(i) == box[i].started /\ result[i] = <<>>

\* C6: an entry whose process timed out or broke puts nothing into the body,
\* not even a blank line: the body has one newline for each of the other
\* entries.
C6_NoLineOnTimeout ==
    phase = "finished" =>
        NewLines(out) = Cardinality({i \in DOMAIN pc : ~TimedOut(i)})

\* ExecMrpeEntry of task i could not start its process
StartFailed(i) ==
    pc[i] \in AfterExec \cup {"return"} /\ box[i] # NoBox /\ ~box[i].started

RECURSIVE Contains(_, _)
\* whether seg is a contiguous part of str
Contains(str, seg) ==
    IF Len(str) < Len(seg) THEN FALSE
    ELSE SubSeq(str, 1, Len(seg)) = seg \/ Contains(Tail(str), seg)

\* C7: a failed start makes ExecMrpeEntry return exactly
\* "(<exe_name>) <description> 3 Unable to execute - plugin may be missing.",
\* and the body is still finished with a line for every entry.
C7_StartFailure ==
    /\ \A i \in DOMAIN pc :
         StartFailed(i) =>
            result[i] = <<"(">> \o entries_[i].exe_name_ \o <<")", SP>>
                          \o entries_[i].description_ \o <<SP, "3", SP>>
                          \o SubSeq(UnableToExecute, 3, Len(UnableToExecute))
    /\ phase = "finished" =>
         \A j \in DOMAIN pc :
            /\ pc[j] = "done"
            /\ Contains(out, ret[j] \o <<LF>>)
            /\ (StartFailed(j) /\ ~HasCaching(entries_[j])) => ret[j] = result[j]

\* a finished body of two entries, the first of which could not be started
\* and the second of which ran
C7_Witness ==
    /\ phase = "finished"
    /\ Len(entries_) = 2
    /\ StartFailed(1)
    /\ ~HasCaching(entries_[1])
    /\ box[2].started
    /\ ret[2] # <<>>

\* the lines of the entries up to n, in entry order, each with its newline
RECURSIVE LinesUpTo(_)
LinesUpTo(n) == IF n = 0 THEN <<>> ELSE LinesUpTo(n - 1) \o ret[n] \o <<LF>>

\* C8: the sequential body is, at every point of the loop, the lines of the
\* entries handled so far in entry order, each followed by one newline; the
\* finished body holds them all, and is empty without entries.
C8_SequentialOrder ==
    /\ (phase = "running" /\ ~parallel) => out = LinesUpTo(idx - 1)
    /\ (phase = "finished" /\ ~parallel) => out = LinesUpTo(Len(entries_))
    /\ (phase = "finished" /\ entries_ = <<>>) => out = <<>>

\* a finished sequential body of two different lines
C8_Witness ==
    /\ phase = "finished"
    /\ ~parallel
    /\ Len(entries_) = 2
    /\ ret[1] # <<>>
    /\ ret[2] # <<>>
    /\ ret[1] # ret[2]

\* C9: the finished parallel body is the lines of all entries in some
\* order, each exactly once and followed by one newline; the line of an
\* entry without caching is the result of its own execution.
C9_ParallelLines ==
    (phase = "finished" /\ parallel) =>
        /\ \E p \in [DOMAIN pc -> DOMAIN pc] :
              /\ \A i, j \in DOMAIN pc : p[i] = p[j] => i = j
              /\ out = Flatten([n \in DOMAIN pc |-> ret[p[n]] \o <<LF>>])
        /\ NewLines(out) = Len(entries_)
        /\ \A i \in DOMAIN pc : ~HasCaching(entries_[i]) => ret[i] = result[i]

\* a finished parallel body with the second entry's line first
C9_Witness ==
    /\ phase = "finished"
    /\ parallel
    /\ Len(entries_) = 2
    /\ ret[1] # <<>>
    /\ ret[2] # <<>>
    /\ ret[1] # ret[2]
    /\ out = ret[2] \o <<LF>> \o ret[1] \o <<LF>>

\* C10: once ExecMrpeEntry has returned its box holds nothing: a started
\* process was released by clean() at scope exit, whether the wait failed
\* or not, and a box that never started was released by its destructor.
C10_Released ==
    \A i \in DOMAIN pc :
        (pc[i] \in AfterExec /\ box[i] # NoBox) =>
            /\ box[i].released # "no"
            /\ box[i].started => box[i].released = "clean"

\* ExecMrpeEntry has returned after a failed wait
C10_Witness ==
    \E i \in DOMAIN pc :
        /\ pc[i] \in AfterExec
        /\ TimedOut(i)
        /\ box[i].released = "clean"

\* ------------------------------------------------ configuration loads
\* C11: after a load the provider's timeout is never below 1 second, and it
\* is the configured timeout whenever that is at least 1 second.
C11_MinimumClamped ==
    yaml.loaded =>
        /\ timeout_ >= 1
        /\ yaml.timeout >= 1 => timeout_ = yaml.timeout

\* the entry of a check specification that failed to parse: loadFromString
\* has returned before it set full_path_name_
FailedToParse(entry) == entry.full_path_name_ = <<>>

\* C12: after a load entries_ holds no entry of a check specification that
\* failed to parse, in the build that removes absent files and in the one
\* that keeps them.
C12_FailedSpecDropped ==
    yaml.loaded => \A i \in DOMAIN entries_ : ~FailedToParse(entries_[i])

\* the entries of the include files of includes, include after include and
\* line after line
RECURSIVE IncludedEntries(_)
IncludedEntries(includes) ==
    IF includes = <<>> THEN <<>>
    ELSE LET inc == ParseIncludeEntry(Head(includes))
         IN  (IF IsValidRegularFile(Files, inc.path)
              THEN AddCfgFileToEntries(Files, inc.user, inc.path, <<>>, <<>>)
              ELSE <<>>) \o IncludedEntries(Tail(includes))

\* C13: after a load checks_, includes_ and entries_ are what the
\* configuration alone gives, whatever they held before: the checks and the
\* includes of its directives in directive order, and as entries the direct
\* checks in that order followed by the entries of the include files in
\* include order and line order (without the absent files in the build that
\* removes them).  Loading an unchanged configuration again changes none of
\* the three.
C13_RebuiltFromScratch ==
    /\ [][(yaml.loaded /\ yaml' = yaml)
              => UNCHANGED <<checks_, includes_, entries_>>]_vars
    /\ [](yaml.loaded =>
            /\ checks_ = parseConfig(<<>>, <<>>, yaml.strings).checks
            /\ includes_ = parseConfig(<<>>, <<>>, yaml.strings).includes
            /\ entries_ =
                 RemoveAbsentFiles(Files, kMrpeRemoveAbsentFiles,
                     [i \in 1..Len(checks_) |->
                          MrpeEntry(<<>>, checks_[i], <<>>)]
                         \o IncludedEntries(includes_)))

\* a configuration with a check and an include is loaded: the entry of the
\* check comes first, those of the include file follow
C13_Witness ==
    /\ yaml.loaded
    /\ Len(checks_) = 1
    /\ Len(includes_) = 1
    /\ Len(entries_) >= 3
    /\ entries_[1].run_as_user_ = <<>>
    /\ entries_[2].run_as_user_ = UserSk
    /\ entries_[2].description_ = <<"A">>
    /\ entries_[3].description_ = <<"B">>

\* C14: a load leaves the cache as it is: every row stays, with its text,
\* time point, max_age and add_age, so that getLineData answers after the
\* load as it did before.
C14_CacheSurvivesLoad ==
    [][\A cfg \in Configs : \A oob \in OutOfRangeReads :
          loadConfig(cfg, oob) =>
              /\ cache_' = cache_
              /\ \A key \in AllKeys :
                    getLineData(cache_', now', key)
                        = getLineData(cache_, now, key)]_vars

\* the row of B was created under a configuration that gave B the policy
\* (1:yes); the configuration loaded since gives B the policy (0:no), and a
\* body made after that load has served B from this row
C14_Witness ==
    /\ yaml.loaded
    /\ yaml.strings = <<CheckBNoAge, CheckA>>
    /\ <<"B">> \in DOMAIN cache_
    /\ cache_[<<"B">>].max_age = 1
    /\ \E i \in DOMAIN pc :
          /\ pc[i] = "done"
          /\ entries_[i].description_ = <<"B">>
          /\ cached[i][2] = ready
          /\ box[i] = NoBox

\* ------------------------------------------------- parsing functions
\* the number of characters ch in str
CountOf(str, ch) == Cardinality({i \in DOMAIN str : str[i] = ch})

\* the text before the first '=' of a directive, the whole of it when there
\* is none
BeforeEq(entry) ==
    IF Find(entry, <<EQ>>, 1) = 0 THEN entry
    ELSE SubSeq(entry, 1, Find(entry, <<EQ>>, 1) - 1)

\* the text behind the first '=' of a directive, trimmed
AfterEq(entry) ==
    IF Find(entry, <<EQ>>, 1) = 0 THEN <<>>
    ELSE AllTrim(SubSeq(entry, Find(entry, <<EQ>>, 1) + 1, Len(entry)))

\* the normalized key of a directive: trimmed and lowercased
KeyOf(entry) == StringLower(AllTrim(BeforeEq(entry)))

\* what the normalized key says the directive is
ClassOf(entry) ==
    LET key == KeyOf(entry)
    IN  IF key = kCheck THEN "check"
        ELSE IF StartsAt(key, kInclude, 1)
                /\ (Len(key) = Len(kInclude) \/ key[Len(kInclude) + 1] = SP)
        THEN "include"
        ELSE "invalid"

\* C15: parseAndLoadEntry classifies a directive "key = value" by its key,
\* trimmed and lowercased: the key "check" adds one pending check and leaves
\* the includes, a key that starts with the word "include" adds one include
\* and leaves the checks, any other key is refused and leaves both; neither
\* the case of the letters nor the whitespace around the key matters.
C15_ClassifiedByKey ==
    (/\ call.op = "parseAndLoadEntry"
     /\ CountOf(input.str, EQ) = 1
     /\ AfterEq(input.str) # <<>>) =>
        CASE ClassOf(input.str) = "check" ->
                 /\ call.ok
                 /\ Len(checks_) = Len(input.checks) + 1
                 /\ SubSeq(checks_, 1, Len(input.checks)) = input.checks
                 /\ includes_ = input.includes
          [] ClassOf(input.str) = "include" ->
                 /\ call.ok
                 /\ Len(includes_) = Len(input.includes) + 1
                 /\ SubSeq(includes_, 1, Len(input.includes)) = input.includes
                 /\ checks_ = input.checks
          [] OTHER ->
                 /\ ~call.ok
                 /\ checks_ = input.checks
                 /\ includes_ = input.includes

\* C16: a directive is split once, at its first '=': "check = <spec>" with
\* more '=' in <spec> is accepted, and the check added is all the text behind
\* the first '=', trimmed.
C16_SplitAtFirstEq ==
    (/\ call.op = "parseAndLoadEntry"
     /\ KeyOf(input.str) = kCheck
     /\ CountOf(input.str, EQ) > 1) =>
        /\ call.ok
        /\ checks_ = Append(input.checks, AfterEq(input.str))
        /\ includes_ = input.includes

\* a line of an include file of which an entry is to be made: not empty, no
\* comment, and "key = value" with the key "check" in any case
IsCheckLine(raw) ==
    LET line == AllTrim(raw)
    IN  /\ line # <<>>
        /\ line[1] \notin {"#", ";"}
        /\ Find(line, <<EQ>>, 1) # 0
        /\ KeyOf(line) = kCheck

\* C17: AddCfgFileToEntries appends one entry for each check line of the
\* file, in the order of the lines and with the user given, and nothing for
\* any other line; the entries it found stay as they were, and a file that
\* cannot be opened appends nothing.
C17_OneEntryPerCheckLine ==
    call.op = "AddCfgFileToEntries" =>
        LET lines == IF CanOpen(input.files, input.path)
                     THEN input.files[input.path].lines ELSE <<>>
            valid == SelectSeq(lines, IsCheckLine)
            found == Len(input.entries)
        IN  /\ Len(entries_) = found + Len(valid)
            /\ SubSeq(entries_, 1, found) = input.entries
            /\ \A i \in DOMAIN valid :
                  /\ entries_[found + i].run_as_user_ = input.user
                  /\ ~ReadsOutOfRange(AfterEq(AllTrim(valid[i]))) =>
                        entries_[found + i]
                            = MrpeEntry(input.user,
                                        AfterEq(AllTrim(valid[i])), <<>>)

\* an integer as std::stoi takes it whole: a sign or none, then digits, and
\* a value that fits an int
IsInt(str) ==
    LET digits == IF str # <<>> /\ str[1] \in {"-", "+"} THEN Tail(str)
                  ELSE str
    IN  /\ digits # <<>>
        /\ \A i \in DOMAIN digits : IsDigit(digits[i])
        /\ stoi(str).ok

\* the token has the form "(<int>:yes)" or "(<int>:no)"
IsCachingToken(token) ==
    \E colon \in DOMAIN token :
        /\ token[1] = "("
        /\ IsInt(SubSeq(token, 2, colon - 1))
        /\ SubSeq(token, colon + 1, Len(token))
               \in {<<"y", "e", "s", ")">>, <<"n", "o", ")">>}

\* the caching policy such a token stands for
PolicyOf(token) ==
    LET colon == CHOOSE c \in DOMAIN token : token[c] = ":"
    IN  Caching(stoi(SubSeq(token, 2, colon - 1)).value,
                SubSeq(token, colon + 1, Len(token)) = <<"y", "e", "s", ")">>)

\* the full path of the executable named by a token
ExePath(token) ==
    IF is_relative(BuildValidPath(token))
    THEN PathAppend(GetUserDir, BuildValidPath(token))
    ELSE BuildValidPath(token)

\* C18: MrpeEntry takes the second token as the caching policy exactly when
\* it has the form "(<int>:yes)" or "(<int>:no)": then max_age is the
\* integer, add_age is set for "yes" only, and the executable is the third
\* token; with any other second token, "(<int>:<other word>)" included, the
\* entry has no caching policy and the second token is the executable.
C18_CachingTokenForm ==
    (call.op = "MrpeEntry" /\ Len(TokenizeString(input.str)) >= 2) =>
        LET tokens == TokenizeString(input.str)
            me == call.me
        IN  IF IsCachingToken(tokens[2])
            THEN /\ me.caching_ = PolicyOf(tokens[2])
                 /\ (Len(tokens) >= 3 /\ Len(tokens[3]) > 2) =>
                        me.full_path_name_ = ExePath(tokens[3])
            ELSE /\ me.caching_ = NoCaching
                 /\ Len(tokens[2]) > 2 =>
                        me.full_path_name_ = ExePath(tokens[2])

\* C19: FixCrCnForMrpe puts the byte 1 for every newline and a space for
\* every carriage return and keeps every other character and the length
\* ("a\rb\n\n" becomes "a b\1\1"); so the line of a process that ended,
\* "(<exe_name>) <description> <exit_code> <output>", holds the trimmed
\* output so transformed and no newline or carriage return.
C19_LineEncoding ==
    /\ call.op = "FixCrCnForMrpe" =>
          /\ Len(call.s) = Len(input.str)
          /\ \A i \in DOMAIN input.str :
                call.s[i] = CASE input.str[i] = LF -> SOH
                              [] input.str[i] = CR -> SP
                              [] OTHER -> input.str[i]
          /\ input.str = <<"a", CR, "b", LF, LF>> =>
                call.s = <<"a", SP, "b", SOH, SOH>>
    /\ call.op = "processResults" =>
          LET header == <<"(">> \o entries_[1].exe_name_ \o <<")", SP>>
                            \o entries_[1].description_ \o <<SP>>
                            \o NatToStr(call.error_code) \o <<SP>>
              output == SubSeq(call.result, Len(header) + 1,
                               Len(call.result))
          IN  /\ SubSeq(call.result, 1, Len(header)) = header
              /\ Len(output) = Len(AllTrim(input.str))
              /\ \A i \in DOMAIN output :
                    /\ output[i] \notin {LF, CR}
                    /\ AllTrim(input.str)[i] \notin {LF, CR} =>
                          output[i] = AllTrim(input.str)[i]
                    /\ AllTrim(input.str)[i] = LF => output[i] = SOH
                    /\ AllTrim(input.str)[i] = CR => output[i] = SP
              /\ \A i \in DOMAIN call.result :
                    call.result[i] \notin {LF, CR}

\* FixCrCnForMrpe has transformed the string of the test
C19_Witness ==
    /\ call.op = "FixCrCnForMrpe"
    /\ input.str = <<"a", CR, "b", LF, LF>>
    /\ call.s = <<"a", SP, "b", SOH, SOH>>

\* ------------------------------------------------- refreshing a row
\* task i of a sequential body is back from MrpeEntryResult, which found no
\* row or an old one for its entry with a caching policy
Refreshed(i) ==
    /\ phase = "running"
    /\ ~parallel
    /\ pc[i] = "append"
    /\ HasCaching(entries_[i])
    /\ cached[i][2] # ready

\* the texts getLineData gives for a row with a line between its time point
\* and now
TextsSince(k) == {ExpectedText(cache_[k], age) : age \in 0..RowAge(k)}

\* C20 as stated, for a sequential body: when MrpeEntryResult is back from
\* an absent or old row, the row exists with the fresh result and a time
\* point not after now, and the text returned is the fresh result, with the
\* age suffix when add_age of the row is set.
C20_ReturnsFreshResult ==
    \A i \in DOMAIN pc :
        Refreshed(i) =>
            LET k == entries_[i].description_
            IN  /\ k \in DOMAIN cache_
                /\ cache_[k].data = result[i]
                /\ cache_[k].tp <= now
                /\ ret[i] \in TextsSince(k)

\* C20: for an entry with a caching policy whose row is absent or old,
\* MrpeEntryResult does in this order: createLine (for an absent row only),
\* one execution, updateLine with the result of that execution, whose time
\* point is the time of the store, and a second getLineData whose text it
\* returns.  In a sequential body the row then exists with the fresh result
\* and a time point not after now, and the text returned is the fresh result
\* with the age suffix when add_age of the row is set, or empty when the
\* fresh result is empty.
C20_RefreshOrder ==
    /\ [][\A i \in Tasks :
            (StepOf(i) /\ HasCaching(entries_[i])) =>
                LET k == entries_[i].description_
                IN  /\ (pc[i] = "resolve" /\ ~RowReady(i)) =>
                          /\ pc'[i] = IF k \in DOMAIN cache_ THEN "exec"
                                      ELSE "create"
                          /\ cache_' = cache_
                    /\ pc[i] = "create" =>
                          /\ pc'[i] = "exec"
                          /\ k \in DOMAIN cache_'
                          /\ box[i] = NoBox
                    /\ pc[i] = "exec" =>
                          /\ pc'[i] \in {"wait", "return"}
                          /\ box[i] = NoBox
                          /\ box'[i] # NoBox
                          /\ cache_' = cache_
                    /\ pc[i] = "wait" =>
                          /\ pc'[i] = "return"
                          /\ cache_' = cache_
                    /\ pc[i] = "return" =>
                          /\ pc'[i] = "update"
                          /\ result'[i] = result[i]
                          /\ cache_' = cache_
                    /\ pc[i] = "update" =>
                          /\ pc'[i] = "stamp"
                          /\ cache_'[k].data = result[i]
                    /\ pc[i] = "stamp" =>
                          /\ pc'[i] = "reread"
                          /\ cache_'[k].tp = now
                          /\ cache_'[k].data = cache_[k].data
                    /\ pc[i] = "reread" =>
                          /\ pc'[i] = "append"
                          /\ cache_' = cache_
                          /\ ret'[i] = getLineData(cache_, now, k)[1]
                    /\ pc[i] \in AfterExec => pc'[i] \in AfterExec]_vars
    /\ [](\A i \in DOMAIN pc :
            Refreshed(i) =>
                LET k == entries_[i].description_
                IN  /\ k \in DOMAIN cache_
                    /\ box[i] # NoBox
                    /\ cache_[k].data = result[i]
                    /\ cache_[k].tp <= now
                    /\ result[i] # <<>> => ret[i] \in TextsSince(k)
                    /\ result[i] = <<>> => ret[i] = <<>>)

\* a sequential body found the row of an entry old, executed the entry, and
\* returns the output of that execution with the age suffix of the row
C20_Witness ==
    \E i \in DOMAIN pc :
        /\ Refreshed(i)
        /\ cached[i][2] = old
        /\ box[i].started
        /\ result[i] # <<>>
        /\ cache_[entries_[i].description_].add_age
        /\ cache_[entries_[i].description_].data = result[i]
        /\ ret[i] = ExpectedText(cache_[entries_[i].description_], 0)

\* --------------------------------------------------------- createLine
\* C21: createLine(key, max_age, add_age) leaves a row for key with empty
\* text and the max_age and add_age given, whatever row key had before, so
\* that key is old afterwards; it leaves every other key as it was; and
\* called again with the same arguments it leaves the cache as the first
\* call left it.
C21_CreateLine ==
    [][\A key \in ApiKeys : \A p \in ApiPolicies :
          ApiCreateLine(key, p) =>
              /\ DOMAIN cache_' = DOMAIN cache_ \cup {key}
              /\ cache_'[key].data = <<>>
              /\ cache_'[key].max_age = p.max_age
              /\ cache_'[key].add_age = p.add_age
              /\ getLineData(cache_', now', key) = <<<<>>, old>>
              /\ \A k \in DOMAIN cache_ \ {key} : cache_'[k] = cache_[k]
              /\ createLine(cache_', key, p.max_age, p.add_age) = cache_'
              /\ (api.op = "createLine" /\ api.key = key
                     /\ cache_[key].max_age = p.max_age
                     /\ cache_[key].add_age = p.add_age)
                    => cache_' = cache_]_vars

\* createLine has just run on a key next to the row of another key, which
\* still holds its line
C21_Witness ==
    /\ api.op = "createLine"
    /\ cache_[api.key].data = <<>>
    /\ cache_[api.key].max_age = 1
    /\ cache_[api.key].add_age
    /\ \E k \in DOMAIN cache_ : k # api.key /\ cache_[k].data # <<>>

\* ------------------------------------------- two tasks on one description
\* tasks i and j of a parallel body have entries with a caching policy and
\* the same description, and the lookup of each found the row absent
BothAbsent(i, j) ==
    /\ parallel
    /\ i # j
    /\ HasCaching(entries_[i])
    /\ HasCaching(entries_[j])
    /\ entries_[i].description_ = entries_[j].description_
    /\ pc[i] # "resolve"
    /\ pc[j] # "resolve"
    /\ cached[i][2] = absent
    /\ cached[j][2] = absent

\* C22 as stated: when two tasks of a parallel body for the same description
\* both found the row absent and both are done, both have executed, the row
\* holds the result one of them stored, and the row is ready.
C22_LastWriteReady ==
    \A i, j \in DOMAIN pc :
        (phase = "finished" /\ BothAbsent(i, j)) =>
            LET k == entries_[i].description_
            IN  /\ box[i] # NoBox
                /\ box[j] # NoBox
                /\ k \in DOMAIN cache_
                /\ cache_[k].data \in {result[i], result[j]}
                /\ getLineData(cache_, now, k)[2] = ready

\* C22: no lock covers a key: two tasks of a parallel body for the same
\* description that both found the row absent both execute and both call
\* updateLine.  Each updateLine stores its result over whatever the row
\* holds, and nothing but createLine and updateLine of a task of that
\* description changes the text of the row, so that once both are done the
\* row holds the result stored last; the row is ready when that result is
\* not empty and its age is within max_age, old otherwise.
C22_LastWriteWins ==
    /\ [][\A i \in Tasks :
            (StepOf(i) /\ HasCaching(entries_[i]) /\ pc[i] = "update") =>
                /\ pc'[i] = "stamp"
                /\ cache_'[entries_[i].description_].data = result[i]]_vars
    /\ [][\A k \in DOMAIN cache_ :
            (phase = "running" /\ cache_'[k].data # cache_[k].data) =>
                \E i \in Tasks :
                    /\ entries_[i].description_ = k
                    /\ pc[i] \in {"create", "update"}
                    /\ pc'[i] # pc[i]
                    /\ pc[i] = "update" => cache_'[k].data = result[i]]_vars
    /\ [](\A i, j \in DOMAIN pc :
            (phase = "finished" /\ BothAbsent(i, j)) =>
                LET k == entries_[i].description_
                IN  /\ box[i] # NoBox
                    /\ box[j] # NoBox
                    /\ k \in DOMAIN cache_
                    /\ cache_[k].data \in {result[i], result[j]}
                    /\ cache_[k].tp <= now
                    /\ (getLineData(cache_, now, k)[2] = ready)
                          <=> (/\ cache_[k].data # <<>>
                               /\ RowAge(k) <= cache_[k].max_age))

\* both tasks found the row absent, both executed with different results,
\* and the finished body finds the row ready with one of them
C22_Witness ==
    \E i, j \in DOMAIN pc :
        /\ phase = "finished"
        /\ BothAbsent(i, j)
        /\ box[i].started
        /\ box[j].started
        /\ result[i] # <<>>
        /\ result[j] # <<>>
        /\ result[i] # result[j]
        /\ cache_[entries_[i].description_].data = result[j]
        /\ getLineData(cache_, now, entries_[i].description_)[2] = ready

\* C23: in a parallel body, a task that executed its entry with a caching
\* policy and got a line that is not empty returns a line that is not
\* empty, whatever the other tasks of that description do meanwhile.
C23_OwnResultReturned ==
    \A i \in DOMAIN pc :
        (/\ parallel
         /\ HasCaching(entries_[i])
         /\ pc[i] \in AfterResolve
         /\ cached[i][2] # ready
         /\ result[i] # <<>>) => ret[i] # <<>>

\* whether str begins with prefix
BeginsWith(str, prefix) ==
    Len(prefix) <= Len(str) /\ SubSeq(str, 1, Len(prefix)) = prefix

\* C24: the line MrpeEntryResult returns for an entry comes from an
\* execution of that entry's own command line: it begins with
\* "(<exe_name>) <description> " of the entry, also when two entries with a
\* caching policy have one description and different commands.
C24_OwnCommandLine ==
    \A i \in DOMAIN pc :
        (pc[i] \in AfterResolve /\ ret[i] # <<>>) =>
            BeginsWith(ret[i], ResultHeader(entries_[i]))

\* C25: every row whose key is the description of a loaded entry with a
\* caching policy carries the max_age and add_age of that entry, also after
\* a load that changed the policy of a description that has a row.
C25_RowHasCurrentPolicy ==
    \A i \in DOMAIN entries_ :
        (/\ phase = "idle"
         /\ HasCaching(entries_[i])
         /\ entries_[i].description_ \in DOMAIN cache_) =>
            /\ cache_[entries_[i].description_].max_age
                   = entries_[i].caching_[1].max_age
            /\ cache_[entries_[i].description_].add_age
                   = entries_[i].caching_[1].add_age

\* C26: the construction of a MrpeEntry never reads a token behind the end
\* of the tokens: the index of the executable token is smaller than the
\* number of tokens whenever that token is read, so the construction
\* returns for every check specification, also for one that ends at its
\* caching token.
C26_NoReadBehindTokens ==
    (input.fn = "MrpeEntry" /\ call.op # "none") =>
        /\ call.op = "MrpeEntry"
        /\ ~ReadsOutOfRange(input.str)

====
